---- MODULE Spec2Model ----
(***************************************************************************)
(* Stock_Agent: the run orchestrator of scheduler.py (main, both modes)    *)
(* and its markup renderer (md_to_html), as state machines.                *)
(*                                                                         *)
(* Spec       one invocation of scheduler.py main(): any subscriber store, *)
(*            any command line, any outcome of every external call.        *)
(* SpecEquiv  two invocations over one store, single-subscriber then       *)
(*            broadcast, the external calls answering alike in both.       *)
(* SpecReorder two broadcast invocations, the second over the records of  *)
(*            the first in another order, as far as the unit loop.         *)
(* SpecRender md_to_html over any text of a few lines.                     *)
(* SpecLive   Spec with every call returning: a step that can be taken is. *)
(* SpecInline md_to_html over any one line of emphasis and code marks.      *)
(* SpecCalls  md_to_html called several times in a row.                    *)
(* SpecSendNow app.py's two send-now handlers and the workers they start.  *)
(* SpecStore  app.py's register, toggle and delete handlers, each a read   *)
(*            and a write of the subscriber file, handled at once.          *)
(* SpecSerial the same handlers one request after the other, from an empty  *)
(*            file.                                                         *)
(* SpecSnapshot one invocation of main() with the dashboard's handlers       *)
(*            changing the subscriber file and the configuration beside it. *)
(***************************************************************************)
EXTENDS Integers, Sequences, FiniteSets, TLC

\* ---------------------------------------------------------------- bounds
MaxStocks == 2
MaxLines == 4
MaxRenders == 3
MaxCallLines == 3
MaxRequests == 2
MaxInline == 5
MaxConcurrent == 2
MaxSerial == 3

StockNames == {"A", "B"}
IndustryNames == {"A"}
UserIds == <<"u1", "u2">>
UserNames == <<"n1", "n2">>

VARIABLES
  \* the environment of the process
  store,            \* users.json: the subscriber records, in file order
  api_key,          \* whether GEMINI_API_KEY / config.gemini_api_key is set
  args_user_id,     \* --user-id ("" when not given)
  \* main()'s locals
  pc, exit_code, users, active_users, u_stocks, u_industries,
  target_user, all_stocks, all_industries,
  news_summary, items, idx, report_map, ui, user_reports,
  portfolio_overview, portfolio_risk, report_footer,
  \* what the run did to the outside (history)
  gen_calls,        \* run_research calls, per unit
  news_calls,       \* get_news_summary calls
  sec_calls,        \* overview / risk / footer calls, per subscriber
  artifacts,        \* texts written by save_report
  last_research,    \* the unit and result of the run_research call just made
  unit_raised,      \* whether a run_research call of this run has raised
  sent,             \* send_email_to calls: recipient, cards, result, in order
  last_sent,        \* the digest and result of the latest send_email_to call
  steps,            \* the external calls issued, by kind, in order
  \* the two-invocation harness
  oracle, first_run,
  \* md_to_html
  lines, li, out, in_ul, in_ol, rendered,
  render_calls,     \* md_to_html invocations entered so far
  first_render,     \* the text and the output of the first one to return
  \* app.py: send-now
  reqs,             \* the send-now requests received, each with its position
  workers,          \* the threads started on _run_scheduler, each with its state
  \* app.py: the handlers that write users.json
  handling,         \* the handlers that have read the file and not returned
  handled           \* the requests answered, in the order of their return

envVars == <<store, api_key, args_user_id>>
mainVars == <<pc, exit_code, users, active_users, u_stocks, u_industries,
              target_user, all_stocks, all_industries,
              news_summary, items, idx, report_map, ui, user_reports,
              portfolio_overview, portfolio_risk, report_footer>>
histVars == <<gen_calls, news_calls, sec_calls, artifacts, last_research, unit_raised,
              sent, last_sent, steps>>
equivVars == <<oracle, first_run>>
renderVars == <<lines, li, out, in_ul, in_ol, rendered, render_calls,
                first_render>>
dashVars == <<handling, handled>>
webVars == <<reqs, workers, dashVars>>
vars == <<envVars, mainVars, histVars, equivVars, renderVars, webVars>>

\* ------------------------------------------------------------ data model
\* All sequences over S of length at most n.
BSeq(S, n) == UNION {[1..k -> S] : k \in 0..n}

Range(s) == {s[i] : i \in 1..Len(s)}

\* The orders in which iterating a Python set can yield its elements.
Perms(S) ==
  {p \in [1..Cardinality(S) -> S] :
     \A i, j \in 1..Cardinality(S) : i # j => p[i] # p[j]}

\* A ResearchUnit: the (research_type, target) key of report_map.
Units == ({"stock"} \X StockNames) \cup ({"industry"} \X IndustryNames)

\* A subscriber record of users.json: a watchlist of stocks (repeats allowed,
\* register_user stores the list as sent) and of at most one industry.
\* active "absent" is a record without the key: register_user always writes
\* the key, so only a record written by hand lacks it (here the record of a
\* one-record file).
IndustryLists == {<<>>} \cup {<<n>> : n \in IndustryNames}
UserRecords(i, flags) ==
  [id : {UserIds[i]}, name : {UserNames[i]}, stocks : BSeq(StockNames, MaxStocks),
   industries : IndustryLists, active : flags]

Stores ==
  {<<>>} \cup {<<a>> : a \in UserRecords(1, {"true", "false", "absent"})}
         \cup {<<a, b>> : a \in UserRecords(1, {"true", "false"}),
                          b \in UserRecords(2, {"true", "false"})}

\* The flag read as if every record were active.
GetActiveAll(u) == TRUE

\* u.get("active", True)
GetActive(u) == u.active # "false"

\* [("stock", s) for s in stocks] + [("industry", i) for i in industries]
ItemsOf(stocks, industries) ==
  [i \in 1..Len(stocks) |-> <<"stock", stocks[i]>>]
    \o [i \in 1..Len(industries) |-> <<"industry", industries[i]>>]

\* The text the n-th run_research call for a unit returns: every call
\* returns a text of its own.
TextOf(unit, n) == <<unit[1], unit[2], n>>

\* Results of the external calls.
UnitOutcomes == {"text", "empty", "raise", "save_raise"}
SectionOutcomes == {"ok", "raise"}
NoOracle == [on |-> FALSE, unit |-> <<>>, section |-> <<>>, send |-> <<>>]

\* What a call may answer: anything, unless the harness has fixed the answer
\* of this call by an earlier one.
Answers(kind, key, all) ==
  IF key \in DOMAIN oracle[kind] THEN {oracle[kind][key]} ELSE all

Remember(kind, key, o) ==
  IF oracle.on THEN [oracle EXCEPT ![kind] = (key :> o) @@ @] ELSE oracle

\* The three per-subscriber sections: text on success, the fixed fallback
\* string when the call raises.
SectionText(o) == IF o = "ok" THEN "text" ELSE "fallback"

\* user_reports: one card per watchlist entry found in report_map, stocks
\* first, then industries.
Cards(kind, names, rm) ==
  LET present == SelectSeq(names, LAMBDA n : <<kind, n>> \in DOMAIN rm)
  IN  [i \in 1..Len(present) |->
         [target |-> present[i], type |-> kind,
          content |-> rm[<<kind, present[i]>>]]]

UserReports(stocks, industries, rm) ==
  Cards("stock", stocks, rm) \o Cards("industry", industries, rm)

\* ------------------------------------------------------------------ Init
NoCalls == [name \in {"overview", "risk", "footer"} |-> 0]

\* The state of a process entering main().
MainInit ==
  /\ pc = "main" /\ exit_code = -1
  /\ users = <<>> /\ active_users = <<>> /\ target_user = <<>>
  /\ u_stocks = <<>> /\ u_industries = <<>>
  /\ all_stocks = {} /\ all_industries = {}
  /\ news_summary = "unset" /\ items = <<>> /\ idx = 0
  /\ report_map = <<>> /\ ui = 0 /\ user_reports = <<>>
  /\ portfolio_overview = "unset" /\ portfolio_risk = "unset"
  /\ report_footer = "unset"
  /\ gen_calls = [u \in Units |-> 0] /\ news_calls = 0
  /\ sec_calls = [u \in Range(UserIds) |-> NoCalls]
  /\ artifacts = {} /\ last_research = <<>> /\ unit_raised = FALSE
  /\ sent = <<>> /\ last_sent = <<>> /\ steps = <<>>

RenderIdle ==
  /\ lines = <<>> /\ li = 0 /\ out = <<>>
  /\ in_ul = FALSE /\ in_ol = FALSE /\ rendered = FALSE
  /\ render_calls = 0 /\ first_render = <<>>

WebIdle ==
  /\ reqs = <<>> /\ workers = <<>>
  /\ handling = <<>> /\ handled = <<>>

\* Single-subscriber mode reads of the other records their id alone (the
\* lookup), so one record stands for every record that is not the target.
Bystander(u) == u.stocks = <<"A">> /\ u.industries = <<>> /\ u.active = "true"

Init ==
  /\ store \in Stores
  /\ api_key \in BOOLEAN
  /\ args_user_id \in {""} \cup Range(UserIds)
  /\ args_user_id # "" =>
       \A i \in 1..Len(store) : store[i].id # args_user_id => Bystander(store[i])
  /\ MainInit
  /\ oracle = NoOracle /\ first_run = <<>>
  /\ RenderIdle /\ WebIdle

\* --------------------------------------------------------- main(): entry
\* sys.exit(code)
Exit(code) ==
  /\ pc' = "exit" /\ exit_code' = code

\* LoadConfig with the sys.exit(1) of the credential check lost.
LoadConfigNoExit ==
  /\ pc = "main"
  /\ pc' = "loaded" /\ users' = store /\ UNCHANGED exit_code
  /\ UNCHANGED <<active_users, u_stocks, u_industries, target_user,
                 all_stocks, all_industries, news_summary, items, idx,
                 report_map, ui, user_reports, portfolio_overview,
                 portfolio_risk, report_footer>>
  /\ UNCHANGED <<envVars, histVars, equivVars, renderVars, webVars>>

\* log start, load_config, the credential check, genai.Client, load_users.
LoadConfig ==
  /\ pc = "main"
  /\ IF ~api_key
       THEN Exit(1) /\ UNCHANGED users
       ELSE pc' = "loaded" /\ users' = store /\ UNCHANGED exit_code
  /\ UNCHANGED <<active_users, u_stocks, u_industries, target_user,
                 all_stocks, all_industries, news_summary, items, idx,
                 report_map, ui, user_reports, portfolio_overview,
                 portfolio_risk, report_footer>>
  /\ UNCHANGED <<envVars, histVars, equivVars, renderVars, webVars>>

\* Single-subscriber mode: find the subscriber, read the watchlist.
SingleLookup ==
  /\ pc = "loaded" /\ args_user_id # ""
  /\ LET found == SelectSeq(users, LAMBDA u : u.id = args_user_id)
     IN  IF found = <<>>
           THEN /\ Exit(1)
                /\ UNCHANGED <<target_user, u_stocks, u_industries>>
           ELSE /\ target_user' = <<found[1]>>
                /\ u_stocks' = found[1].stocks
                /\ u_industries' = found[1].industries
                /\ IF found[1].stocks = <<>> /\ found[1].industries = <<>>
                     THEN Exit(0)
                     ELSE pc' = "s_news" /\ UNCHANGED exit_code
  /\ UNCHANGED <<users, active_users, all_stocks, all_industries,
                 news_summary, items, idx, report_map, ui, user_reports,
                 portfolio_overview, portfolio_risk, report_footer>>
  /\ UNCHANGED <<envVars, histVars, equivVars, renderVars, webVars>>

\* set.update(list): the set with the entries of the list, added in order.
RECURSIVE SetUpdate(_, _)
SetUpdate(S, l) ==
  IF l = <<>> THEN S ELSE SetUpdate(S \cup {Head(l)}, Tail(l))

\* The loop with a break behind its first pass.
CollectFirstOnly(acc, act, field) ==
  IF act = <<>> THEN acc ELSE SetUpdate(acc, Head(act)[field])

\* for u in active_users: acc.update(u.get(field, [])), in list order.
RECURSIVE Collect(_, _, _)
Collect(acc, act, field) ==
  IF act = <<>> THEN acc
  ELSE Collect(SetUpdate(acc, Head(act)[field]), Tail(act), field)

\* BroadcastCollect with the "nothing to do" exit lost.
BroadcastCollectNoExit ==
  /\ pc = "loaded" /\ args_user_id = ""
  /\ LET act == SelectSeq(users, GetActive)
     IN  /\ active_users' = act
         /\ all_stocks' = Collect({}, act, "stocks")
         /\ all_industries' = Collect({}, act, "industries")
         /\ pc' = "b_news" /\ UNCHANGED exit_code
  /\ UNCHANGED <<users, u_stocks, u_industries, target_user,
                 news_summary, items, idx, report_map, ui, user_reports,
                 portfolio_overview, portfolio_risk, report_footer>>
  /\ UNCHANGED <<envVars, histVars, equivVars, renderVars, webVars>>

\* Broadcast mode: the active subscribers and the sets of their targets.
\* BroadcastCollect with the subscriber file read again.
BroadcastCollectReread ==
  /\ pc = "loaded" /\ args_user_id = ""
  /\ LET act == SelectSeq(store, GetActive)
         st == Collect({}, act, "stocks")
         ind == Collect({}, act, "industries")
     IN  /\ active_users' = act
         /\ all_stocks' = st
         /\ all_industries' = ind
         /\ IF st = {} /\ ind = {}
              THEN Exit(0)
              ELSE pc' = "b_news" /\ UNCHANGED exit_code
  /\ UNCHANGED <<users, u_stocks, u_industries, target_user,
                 news_summary, items, idx, report_map, ui, user_reports,
                 portfolio_overview, portfolio_risk, report_footer>>
  /\ UNCHANGED <<envVars, histVars, equivVars, renderVars, webVars>>

BroadcastCollect ==
  /\ pc = "loaded" /\ args_user_id = ""
  /\ LET act == SelectSeq(users, GetActive)
         st == Collect({}, act, "stocks")
         ind == Collect({}, act, "industries")
     IN  /\ active_users' = act
         /\ all_stocks' = st
         /\ all_industries' = ind
         /\ IF st = {} /\ ind = {}
              THEN Exit(0)
              ELSE pc' = "b_news" /\ UNCHANGED exit_code
  /\ UNCHANGED <<users, u_stocks, u_industries, target_user,
                 news_summary, items, idx, report_map, ui, user_reports,
                 portfolio_overview, portfolio_risk, report_footer>>
  /\ UNCHANGED <<envVars, histVars, equivVars, renderVars, webVars>>

\* ------------------------------------------------- main(): shared context
\* try: get_news_summary(client) / except: the fallback string.
NewsStep ==
  \E o \in Answers("section", <<"", "news">>, SectionOutcomes) :
    /\ news_summary' = SectionText(o)
    /\ news_calls' = news_calls + 1
    /\ steps' = Append(steps, "news")
    /\ oracle' = Remember("section", <<"", "news">>, o)

\* try: get_portfolio_overview / get_portfolio_risk / get_report_footer for
\* subscriber uid / except: the fallback string. The text it leaves.
SectionStep(uid, name, text) ==
  \E o \in Answers("section", <<uid, name>>, SectionOutcomes) :
    /\ text = SectionText(o)
    /\ sec_calls' = [sec_calls EXCEPT ![uid][name] = @ + 1]
    /\ steps' = Append(steps, name)
    /\ oracle' = Remember("section", <<uid, name>>, o)

\* One pass of the unit loop: try: run_research, and if the content is not
\* empty save_report and report_map[(rtype, target)] = content / except: log.
ResearchStep(unit) ==
  \E o \in Answers("unit", <<unit, gen_calls[unit] + 1>>, UnitOutcomes) :
    LET content == TextOf(unit, gen_calls[unit] + 1)
    IN  /\ gen_calls' = [gen_calls EXCEPT ![unit] = @ + 1]
        /\ artifacts' = IF o = "text" THEN artifacts \cup {content} ELSE artifacts
        /\ report_map' = IF o = "text" THEN (unit :> content) @@ report_map
                                       ELSE report_map
        /\ last_research' = <<unit, o>>
        /\ unit_raised' = (unit_raised \/ o = "raise")
        /\ steps' = Append(steps, "unit")
        /\ oracle' = Remember("unit", <<unit, gen_calls[unit] + 1>>, o)

\* send_email_to(config, email of uid, subject, build_html_email(...)): the
\* call is recorded with the digest it carries and what it returned; main
\* drops the result.
SendStep(uid, reports) ==
  \E ok \in Answers("send", uid, BOOLEAN) :
    /\ sent' = Append(sent, [to |-> uid, cards |-> reports, ok |-> ok])
    /\ last_sent' = <<[to |-> uid, cards |-> reports, news |-> news_summary,
                       overview |-> portfolio_overview,
                       risk |-> portfolio_risk, footer |-> report_footer,
                       ok |-> ok]>>
    /\ steps' = Append(steps, "dispatch")
    /\ oracle' = Remember("send", uid, ok)

\* ------------------------------------------ main(): single-subscriber mode
SingleNews ==
  /\ pc = "s_news"
  /\ NewsStep
  /\ items' = ItemsOf(u_stocks, u_industries)
  /\ report_map' = <<>>
  /\ idx' = 1
  /\ pc' = "s_research"
  /\ UNCHANGED <<exit_code, users, active_users, u_stocks, u_industries,
                 target_user, all_stocks, all_industries, ui, user_reports,
                 portfolio_overview, portfolio_risk, report_footer>>
  /\ UNCHANGED <<gen_calls, sec_calls, artifacts, last_research, unit_raised, sent, last_sent>>
  /\ UNCHANGED <<envVars, first_run, renderVars, webVars>>

SingleResearch ==
  /\ pc = "s_research" /\ idx <= Len(items)
  /\ ResearchStep(items[idx])
  /\ idx' = idx + 1
  /\ UNCHANGED <<pc, exit_code, users, active_users, u_stocks, u_industries,
                 target_user, all_stocks, all_industries, news_summary, items,
                 ui, user_reports, portfolio_overview, portfolio_risk,
                 report_footer>>
  /\ UNCHANGED <<news_calls, sec_calls, sent, last_sent>>
  /\ UNCHANGED <<envVars, first_run, renderVars, webVars>>

\* SingleCheck leaving with sys.exit(1) when nothing was generated.
SingleCheckFail ==
  /\ pc = "s_research" /\ idx > Len(items)
  /\ IF DOMAIN report_map = {}
       THEN Exit(1)
       ELSE pc' = "s_overview" /\ UNCHANGED exit_code
  /\ items' = <<>> /\ idx' = 0 /\ last_research' = <<>>
  /\ UNCHANGED <<users, active_users, u_stocks, u_industries, target_user,
                 all_stocks, all_industries, news_summary,
                 report_map, ui, user_reports, portfolio_overview,
                 portfolio_risk, report_footer>>
  /\ UNCHANGED <<gen_calls, news_calls, sec_calls, artifacts, unit_raised, sent,
                 last_sent, steps>>
  /\ UNCHANGED <<envVars, equivVars, renderVars, webVars>>

\* if not report_map: sys.exit(0)
SingleCheck ==
  /\ pc = "s_research" /\ idx > Len(items)
  /\ IF DOMAIN report_map = {}
       THEN Exit(0)
       ELSE pc' = "s_overview" /\ UNCHANGED exit_code
  \* The loop is over: its list and position are never read again.
  /\ items' = <<>> /\ idx' = 0 /\ last_research' = <<>>
  /\ UNCHANGED <<users, active_users, u_stocks, u_industries, target_user,
                 all_stocks, all_industries, news_summary,
                 report_map, ui, user_reports, portfolio_overview,
                 portfolio_risk, report_footer>>
  /\ UNCHANGED <<gen_calls, news_calls, sec_calls, artifacts, unit_raised, sent,
                 last_sent, steps>>
  /\ UNCHANGED <<envVars, equivVars, renderVars, webVars>>

SingleOverview ==
  /\ pc = "s_overview"
  /\ \E text \in {"text", "fallback"} :
       /\ SectionStep(target_user[1].id, "overview", text)
       /\ portfolio_overview' = text
  /\ pc' = "s_risk"
  /\ UNCHANGED <<exit_code, users, active_users, u_stocks, u_industries,
                 target_user, all_stocks, all_industries, news_summary, items,
                 idx, report_map, ui, user_reports, portfolio_risk,
                 report_footer>>
  /\ UNCHANGED <<gen_calls, news_calls, artifacts, last_research, unit_raised, sent, last_sent>>
  /\ UNCHANGED <<envVars, first_run, renderVars, webVars>>

SingleRisk ==
  /\ pc = "s_risk"
  /\ \E text \in {"text", "fallback"} :
       /\ SectionStep(target_user[1].id, "risk", text)
       /\ portfolio_risk' = text
  /\ pc' = "s_footer"
  /\ UNCHANGED <<exit_code, users, active_users, u_stocks, u_industries,
                 target_user, all_stocks, all_industries, news_summary, items,
                 idx, report_map, ui, user_reports, portfolio_overview,
                 report_footer>>
  /\ UNCHANGED <<gen_calls, news_calls, artifacts, last_research, unit_raised, sent, last_sent>>
  /\ UNCHANGED <<envVars, first_run, renderVars, webVars>>

SingleFooter ==
  /\ pc = "s_footer"
  /\ \E text \in {"text", "fallback"} :
       /\ SectionStep(target_user[1].id, "footer", text)
       /\ report_footer' = text
  /\ pc' = "s_send"
  /\ UNCHANGED <<exit_code, users, active_users, u_stocks, u_industries,
                 target_user, all_stocks, all_industries, news_summary, items,
                 idx, report_map, ui, user_reports, portfolio_overview,
                 portfolio_risk>>
  /\ UNCHANGED <<gen_calls, news_calls, artifacts, last_research, unit_raised, sent, last_sent>>
  /\ UNCHANGED <<envVars, first_run, renderVars, webVars>>

\* user_reports, then the mail if there is a card, then return.
SingleSend ==
  /\ pc = "s_send"
  /\ LET reports == UserReports(u_stocks, u_industries, report_map)
     IN  /\ user_reports' = reports
         /\ IF reports # <<>>
              THEN SendStep(target_user[1].id, reports)
              ELSE UNCHANGED <<sent, last_sent, steps, oracle>>
  /\ pc' = "done" /\ exit_code' = 0
  /\ UNCHANGED <<users, active_users, u_stocks, u_industries, target_user,
                 all_stocks, all_industries, news_summary, items, idx,
                 report_map, ui, portfolio_overview, portfolio_risk,
                 report_footer>>
  /\ UNCHANGED <<gen_calls, news_calls, sec_calls, artifacts, last_research, unit_raised>>
  /\ UNCHANGED <<envVars, first_run, renderVars, webVars>>

\* ------------------------------------------------ main(): broadcast mode
\* The news digest, then items: the stocks of the set, then the industries,
\* each in the order the set iterates.
BroadcastNews ==
  /\ pc = "b_news"
  /\ NewsStep
  /\ \E ps \in Perms(all_stocks), pi \in Perms(all_industries) :
       items' = ItemsOf(ps, pi)
  /\ report_map' = <<>>
  /\ idx' = 1
  /\ pc' = "b_research"
  /\ UNCHANGED <<exit_code, users, active_users, u_stocks, u_industries,
                 target_user, all_stocks, all_industries, ui, user_reports,
                 portfolio_overview, portfolio_risk, report_footer>>
  /\ UNCHANGED <<gen_calls, sec_calls, artifacts, last_research, unit_raised, sent, last_sent>>
  /\ UNCHANGED <<envVars, first_run, renderVars, webVars>>

\* BroadcastResearch without the try/except: an exception of run_research or
\* save_report ends the process.
BroadcastResearchNoCatch ==
  /\ pc = "b_research" /\ idx <= Len(items)
  /\ ResearchStep(items[idx])
  /\ idx' = idx + 1
  /\ IF last_research'[2] \in {"raise", "save_raise"}
       THEN Exit(1)
       ELSE UNCHANGED <<pc, exit_code>>
  /\ UNCHANGED <<users, active_users, u_stocks, u_industries,
                 target_user, all_stocks, all_industries, news_summary, items,
                 ui, user_reports, portfolio_overview, portfolio_risk,
                 report_footer>>
  /\ UNCHANGED <<news_calls, sec_calls, sent, last_sent>>
  /\ UNCHANGED <<envVars, first_run, renderVars, webVars>>

BroadcastResearch ==
  /\ pc = "b_research" /\ idx <= Len(items)
  /\ ResearchStep(items[idx])
  /\ idx' = idx + 1
  /\ UNCHANGED <<pc, exit_code, users, active_users, u_stocks, u_industries,
                 target_user, all_stocks, all_industries, news_summary, items,
                 ui, user_reports, portfolio_overview, portfolio_risk,
                 report_footer>>
  /\ UNCHANGED <<news_calls, sec_calls, sent, last_sent>>
  /\ UNCHANGED <<envVars, first_run, renderVars, webVars>>

\* if not report_map: sys.exit(0); otherwise on to the subscriber loop.
BroadcastCheck ==
  /\ pc = "b_research" /\ idx > Len(items)
  /\ IF DOMAIN report_map = {}
       THEN Exit(0) /\ UNCHANGED ui
       ELSE pc' = "b_user" /\ ui' = 1 /\ UNCHANGED exit_code
  \* The loop is over: its list and position are never read again.
  /\ items' = <<>> /\ idx' = 0 /\ last_research' = <<>>
  /\ UNCHANGED <<users, active_users, u_stocks, u_industries, target_user,
                 all_stocks, all_industries, news_summary,
                 report_map, user_reports, portfolio_overview,
                 portfolio_risk, report_footer>>
  /\ UNCHANGED <<gen_calls, news_calls, sec_calls, artifacts, unit_raised, sent,
                 last_sent, steps>>
  /\ UNCHANGED <<envVars, equivVars, renderVars, webVars>>

\* BroadcastCompose without the "no card: continue".
BroadcastComposeNoSkip ==
  /\ pc = "b_user" /\ ui <= Len(active_users)
  /\ LET u == active_users[ui]
     IN  /\ u_stocks' = u.stocks
         /\ u_industries' = u.industries
         /\ user_reports' = UserReports(u.stocks, u.industries, report_map)
         /\ pc' = "b_overview" /\ UNCHANGED ui
  /\ portfolio_overview' = "unset"
  /\ portfolio_risk' = "unset"
  /\ report_footer' = "unset"
  /\ last_sent' = <<>>
  /\ UNCHANGED <<exit_code, users, active_users, target_user, all_stocks,
                 all_industries, news_summary, items, idx, report_map>>
  /\ UNCHANGED <<gen_calls, news_calls, sec_calls, artifacts, last_research,
                 unit_raised, sent, steps>>
  /\ UNCHANGED <<envVars, equivVars, renderVars, webVars>>

\* BroadcastCompose with get_news_summary called anew for every subscriber
\* that has a card.
BroadcastComposeNews ==
  /\ pc = "b_user" /\ ui <= Len(active_users)
  /\ LET u == active_users[ui]
         reports == UserReports(u.stocks, u.industries, report_map)
     IN  /\ u_stocks' = u.stocks
         /\ u_industries' = u.industries
         /\ user_reports' = reports
         /\ IF reports = <<>>
              THEN ui' = ui + 1 /\ UNCHANGED <<pc, news_calls>>
              ELSE /\ pc' = "b_overview" /\ UNCHANGED ui
                   /\ news_calls' = news_calls + 1
  /\ portfolio_overview' = "unset"
  /\ portfolio_risk' = "unset"
  /\ report_footer' = "unset"
  /\ last_sent' = <<>>
  /\ UNCHANGED <<exit_code, users, active_users, target_user, all_stocks,
                 all_industries, news_summary, items, idx, report_map>>
  /\ UNCHANGED <<gen_calls, sec_calls, artifacts, last_research, unit_raised,
                 sent, steps>>
  /\ UNCHANGED <<envVars, equivVars, renderVars, webVars>>

\* for u in active_users: user_reports; no card: log and continue.
BroadcastCompose ==
  /\ pc = "b_user" /\ ui <= Len(active_users)
  /\ LET u == active_users[ui]
         reports == UserReports(u.stocks, u.industries, report_map)
     IN  /\ u_stocks' = u.stocks
         /\ u_industries' = u.industries
         /\ user_reports' = reports
         /\ IF reports = <<>>
              THEN ui' = ui + 1 /\ UNCHANGED pc
              ELSE pc' = "b_overview" /\ UNCHANGED ui
  \* The section texts of the previous pass are never read again: each is
  \* assigned in this pass before build_html_email reads it.
  /\ portfolio_overview' = "unset"
  /\ portfolio_risk' = "unset"
  /\ report_footer' = "unset"
  /\ last_sent' = <<>>
  /\ UNCHANGED <<exit_code, users, active_users, target_user, all_stocks,
                 all_industries, news_summary, items, idx, report_map>>
  /\ UNCHANGED <<gen_calls, news_calls, sec_calls, artifacts, last_research, unit_raised,
                 sent, steps>>
  /\ UNCHANGED <<envVars, equivVars, renderVars, webVars>>

BroadcastOverview ==
  /\ pc = "b_overview"
  /\ \E text \in {"text", "fallback"} :
       /\ SectionStep(active_users[ui].id, "overview", text)
       /\ portfolio_overview' = text
  /\ pc' = "b_risk"
  /\ UNCHANGED <<exit_code, users, active_users, u_stocks, u_industries,
                 target_user, all_stocks, all_industries, news_summary, items,
                 idx, report_map, ui, user_reports, portfolio_risk,
                 report_footer>>
  /\ UNCHANGED <<gen_calls, news_calls, artifacts, last_research, unit_raised, sent, last_sent>>
  /\ UNCHANGED <<envVars, first_run, renderVars, webVars>>

\* BroadcastRisk giving the subscriber up when get_portfolio_risk raises.
BroadcastRiskSkip ==
  /\ pc = "b_risk"
  /\ \E text \in {"text", "fallback"} :
       /\ SectionStep(active_users[ui].id, "risk", text)
       /\ portfolio_risk' = text
       /\ IF text = "fallback"
            THEN pc' = "b_user" /\ ui' = ui + 1
            ELSE pc' = "b_footer" /\ UNCHANGED ui
  /\ UNCHANGED <<exit_code, users, active_users, u_stocks, u_industries,
                 target_user, all_stocks, all_industries, news_summary, items,
                 idx, report_map, user_reports, portfolio_overview,
                 report_footer>>
  /\ UNCHANGED <<gen_calls, news_calls, artifacts, last_research, unit_raised, sent, last_sent>>
  /\ UNCHANGED <<envVars, first_run, renderVars, webVars>>

BroadcastRisk ==
  /\ pc = "b_risk"
  /\ \E text \in {"text", "fallback"} :
       /\ SectionStep(active_users[ui].id, "risk", text)
       /\ portfolio_risk' = text
  /\ pc' = "b_footer"
  /\ UNCHANGED <<exit_code, users, active_users, u_stocks, u_industries,
                 target_user, all_stocks, all_industries, news_summary, items,
                 idx, report_map, ui, user_reports, portfolio_overview,
                 report_footer>>
  /\ UNCHANGED <<gen_calls, news_calls, artifacts, last_research, unit_raised, sent, last_sent>>
  /\ UNCHANGED <<envVars, first_run, renderVars, webVars>>

\* BroadcastFooter going on to the mail without calling get_report_footer.
BroadcastFooterSkipped ==
  /\ pc = "b_footer"
  /\ report_footer' = "fallback"
  /\ pc' = "b_send"
  /\ UNCHANGED <<exit_code, users, active_users, u_stocks, u_industries,
                 target_user, all_stocks, all_industries, news_summary, items,
                 idx, report_map, ui, user_reports, portfolio_overview,
                 portfolio_risk>>
  /\ UNCHANGED <<envVars, histVars, equivVars, renderVars, webVars>>

BroadcastFooter ==
  /\ pc = "b_footer"
  /\ \E text \in {"text", "fallback"} :
       /\ SectionStep(active_users[ui].id, "footer", text)
       /\ report_footer' = text
  /\ pc' = "b_send"
  /\ UNCHANGED <<exit_code, users, active_users, u_stocks, u_industries,
                 target_user, all_stocks, all_industries, news_summary, items,
                 idx, report_map, ui, user_reports, portfolio_overview,
                 portfolio_risk>>
  /\ UNCHANGED <<gen_calls, news_calls, artifacts, last_research, unit_raised, sent, last_sent>>
  /\ UNCHANGED <<envVars, first_run, renderVars, webVars>>

\* BroadcastSend ending the process when send_email_to returns False.
BroadcastSendAbort ==
  /\ pc = "b_send"
  /\ SendStep(active_users[ui].id, user_reports)
  /\ IF last_sent'[1].ok
       THEN ui' = ui + 1 /\ pc' = "b_user" /\ UNCHANGED exit_code
       ELSE Exit(1) /\ UNCHANGED ui
  /\ UNCHANGED <<users, active_users, u_stocks, u_industries,
                 target_user, all_stocks, all_industries, news_summary, items,
                 idx, report_map, user_reports, portfolio_overview,
                 portfolio_risk, report_footer>>
  /\ UNCHANGED <<gen_calls, news_calls, sec_calls, artifacts, last_research, unit_raised>>
  /\ UNCHANGED <<envVars, first_run, renderVars, webVars>>

\* BroadcastSend writing the store: a subscriber whose delivery failed is
\* saved as inactive.
BroadcastSendDeactivate ==
  /\ pc = "b_send"
  /\ SendStep(active_users[ui].id, user_reports)
  /\ store' = IF last_sent'[1].ok THEN store
              ELSE [i \in 1..Len(store) |->
                      IF store[i].id = active_users[ui].id
                        THEN [store[i] EXCEPT !.active = "false"]
                        ELSE store[i]]
  /\ ui' = ui + 1
  /\ pc' = "b_user"
  /\ UNCHANGED <<exit_code, users, active_users, u_stocks, u_industries,
                 target_user, all_stocks, all_industries, news_summary, items,
                 idx, report_map, user_reports, portfolio_overview,
                 portfolio_risk, report_footer>>
  /\ UNCHANGED <<gen_calls, news_calls, sec_calls, artifacts, last_research, unit_raised>>
  /\ UNCHANGED <<api_key, args_user_id, first_run, renderVars, webVars>>

\* The mail of this subscriber, then the next subscriber.
\* BroadcastSend with a delivery that failed tried once more.
BroadcastSendRetry ==
  /\ pc = "b_send"
  /\ SendStep(active_users[ui].id, user_reports)
  /\ IF ~last_sent'[1].ok /\ \A k \in 1..Len(sent) : sent[k].to # active_users[ui].id
       THEN UNCHANGED <<ui, pc>>
       ELSE ui' = ui + 1 /\ pc' = "b_user"
  /\ UNCHANGED <<exit_code, users, active_users, u_stocks, u_industries,
                 target_user, all_stocks, all_industries, news_summary, items,
                 idx, report_map, user_reports, portfolio_overview,
                 portfolio_risk, report_footer>>
  /\ UNCHANGED <<gen_calls, news_calls, sec_calls, artifacts, last_research, unit_raised>>
  /\ UNCHANGED <<envVars, first_run, renderVars, webVars>>

BroadcastSend ==
  /\ pc = "b_send"
  /\ SendStep(active_users[ui].id, user_reports)
  /\ ui' = ui + 1
  /\ pc' = "b_user"
  /\ UNCHANGED <<exit_code, users, active_users, u_stocks, u_industries,
                 target_user, all_stocks, all_industries, news_summary, items,
                 idx, report_map, user_reports, portfolio_overview,
                 portfolio_risk, report_footer>>
  /\ UNCHANGED <<gen_calls, news_calls, sec_calls, artifacts, last_research, unit_raised>>
  /\ UNCHANGED <<envVars, first_run, renderVars, webVars>>

\* The loop is over: log and return.
BroadcastDone ==
  /\ pc = "b_user" /\ ui > Len(active_users)
  /\ pc' = "done" /\ exit_code' = 0
  /\ UNCHANGED <<users, active_users, u_stocks, u_industries, target_user,
                 all_stocks, all_industries, news_summary, items, idx,
                 report_map, ui, user_reports, portfolio_overview,
                 portfolio_risk, report_footer>>
  /\ UNCHANGED <<envVars, histVars, equivVars, renderVars, webVars>>

\* ------------------------------------------------------------------ Spec
Next ==
  \/ LoadConfig
  \/ SingleLookup
  \/ SingleNews
  \/ SingleResearch
  \/ SingleCheck
  \/ SingleOverview
  \/ SingleRisk
  \/ SingleFooter
  \/ SingleSend
  \/ BroadcastCollect
  \/ BroadcastNews
  \/ BroadcastResearch
  \/ BroadcastCheck
  \/ BroadcastCompose
  \/ BroadcastOverview
  \/ BroadcastRisk
  \/ BroadcastFooter
  \/ BroadcastSend
  \/ BroadcastDone

Spec == Init /\ [][Next]_vars

\* main() is one sequential process and every call it makes returns, with a
\* result or an exception: a run that can take a step takes one.
SpecLive == Spec /\ WF_vars(Next)

\* ------------------------------------------------------- two invocations
\* What a finished run shows of itself: the external calls it issued in
\* order by kind, the units of the cards of each mail in order, the sections
\* of the last digest (text or fallback) with the result of its delivery,
\* and the exit code.
Summary ==
  [steps |-> steps,
   cards |-> [k \in 1..Len(sent) |->
                [i \in 1..Len(sent[k].cards) |->
                   <<sent[k].cards[i].type, sent[k].cards[i].target>>]],
   digest |-> last_sent,
   exit_code |-> exit_code]

\* The process has ended; scheduler.py is started again, now without
\* --user-id, over the same store and configuration.
SecondInvocation ==
  /\ pc \in {"done", "exit"} /\ args_user_id # "" /\ first_run = <<>>
  /\ first_run' = <<[Summary EXCEPT !.digest =
                       IF @ = <<>> THEN @
                       ELSE <<[news |-> @[1].news, overview |-> @[1].overview,
                               risk |-> @[1].risk, footer |-> @[1].footer,
                               ok |-> @[1].ok]>>]>>
  /\ args_user_id' = ""
  /\ pc' = "main" /\ exit_code' = -1
  /\ users' = <<>> /\ active_users' = <<>> /\ target_user' = <<>>
  /\ u_stocks' = <<>> /\ u_industries' = <<>>
  /\ all_stocks' = {} /\ all_industries' = {}
  /\ news_summary' = "unset" /\ items' = <<>> /\ idx' = 0
  /\ report_map' = <<>> /\ ui' = 0 /\ user_reports' = <<>>
  /\ portfolio_overview' = "unset" /\ portfolio_risk' = "unset"
  /\ report_footer' = "unset"
  /\ gen_calls' = [u \in Units |-> 0] /\ news_calls' = 0
  /\ sec_calls' = [u \in Range(UserIds) |-> NoCalls]
  /\ artifacts' = {} /\ last_research' = <<>> /\ unit_raised' = FALSE
  /\ sent' = <<>> /\ last_sent' = <<>> /\ steps' = <<>>
  /\ UNCHANGED <<store, api_key, oracle, renderVars, webVars>>

\* A store with one active subscriber, whose watchlist is not empty, beside
\* at most one inactive subscriber watching B, and --user-id naming the
\* active one; every call of the second invocation
\* answers as the same call of the first did.
InitEquiv ==
  /\ store \in Stores
  /\ api_key = TRUE
  /\ args_user_id \in Range(UserIds)
  /\ \E i \in 1..Len(store) :
       /\ store[i].id = args_user_id
       /\ GetActive(store[i])
       /\ ItemsOf(store[i].stocks, store[i].industries) # <<>>
       /\ \A j \in 1..Len(store) :
            j # i => /\ ~GetActive(store[j])
                     /\ store[j].stocks = <<"B">> /\ store[j].industries = <<>>
  /\ MainInit
  /\ oracle = [NoOracle EXCEPT !.on = TRUE] /\ first_run = <<>>
  /\ RenderIdle /\ WebIdle

NextEquiv == Next \/ SecondInvocation

SpecEquiv == InitEquiv /\ [][NextEquiv]_vars

\* --------------------------------------- broadcast over a reordered store
\* The list without its entry at place i.
Without(l, i) == SubSeq(l, 1, i - 1) \o SubSeq(l, i + 1, Len(l))

\* The orders a list can be written in.
RECURSIVE Orders(_)
Orders(l) ==
  IF l = <<>> THEN {<<>>}
  ELSE UNION {{<<l[i]>> \o r : r \in Orders(Without(l, i))} : i \in 1..Len(l)}

\* The record with each of its lists in any order.
Shuffled(u) ==
  {[u EXCEPT !.stocks = a, !.industries = b] :
     a \in Orders(u.stocks), b \in Orders(u.industries)}

\* The stores that hold the records of st, the records in any order and the
\* lists of each in any order.
RECURSIVE Reordered(_)
Reordered(st) ==
  IF st = <<>> THEN {<<>>}
  ELSE UNION {{<<u>> \o r : u \in Shuffled(st[i]),
                            r \in Reordered(Without(st, i))} :
              i \in 1..Len(st)}

\* The units run_research has been called for.
Generated == {un \in Units : gen_calls[un] > 0}

\* The unit loop of a broadcast run is over, or the run found nothing to do;
\* scheduler.py is started again, without --user-id, over the same records
\* written in another order.
ReorderedInvocation ==
  /\ args_user_id = "" /\ first_run = <<>>
  /\ pc \in {"b_user", "exit"}
  /\ first_run' = <<[all_stocks |-> all_stocks,
                     all_industries |-> all_industries,
                     generated |-> Generated]>>
  /\ store' \in Reordered(store)
  /\ pc' = "main" /\ exit_code' = -1
  /\ users' = <<>> /\ active_users' = <<>>
  /\ all_stocks' = {} /\ all_industries' = {}
  /\ news_summary' = "unset" /\ items' = <<>> /\ idx' = 0
  /\ report_map' = <<>> /\ ui' = 0
  /\ gen_calls' = [u \in Units |-> 0] /\ news_calls' = 0
  /\ artifacts' = {} /\ last_research' = <<>> /\ unit_raised' = FALSE
  /\ steps' = <<>>
  /\ UNCHANGED <<api_key, args_user_id, oracle, target_user, u_stocks,
                 u_industries, user_reports, portfolio_overview,
                 portfolio_risk, report_footer, sec_calls, sent, last_sent>>
  /\ UNCHANGED <<renderVars, webVars>>

\* A broadcast run with its credential, over any store.
InitReorder ==
  /\ store \in Stores
  /\ api_key = TRUE /\ args_user_id = ""
  /\ MainInit
  /\ oracle = NoOracle /\ first_run = <<>>
  /\ RenderIdle /\ WebIdle

\* The run as far as the end of its unit loop.
NextReorder ==
  \/ LoadConfig
  \/ BroadcastCollect
  \/ BroadcastNews
  \/ BroadcastResearch
  \/ BroadcastCheck
  \/ ReorderedInvocation

SpecReorder == InitReorder /\ [][NextReorder]_vars

\* ------------------------------------------------------------ md_to_html
\* A line is the sequence of its characters. The lines a text is drawn from:
\* "- a", "- b", "- c", "* d", "1. x", "text", "", "---", "## h", "**b**".
LineSamples ==
  { <<"-", " ", "a">>, <<"-", " ", "b">>, <<"-", " ", "c">>,
    <<"*", " ", "d">>, <<"1", ".", " ", "x">>, <<"t", "e", "x", "t">>,
    <<>>, <<"-", "-", "-">>, <<"#", "#", " ", "h">>,
    <<"*", "*", "b", "*", "*">> }

Digits == {"0", "1", "2", "3", "4", "5", "6", "7", "8", "9"}

Min(S) == CHOOSE x \in S : \A y \in S : x <= y

\* s has the characters of d at position i.
HasAt(s, i, d) ==
  /\ i >= 1 /\ i + Len(d) - 1 <= Len(s)
  /\ \A k \in 1..Len(d) : s[i + k - 1] = d[k]

\* line.startswith(prefix)
StartsWith(s, prefix) == HasAt(s, 1, prefix)

\* line[n:]
From(s, n) == SubSeq(s, n + 1, Len(s))

\* line.strip()
RECURSIVE LStrip(_)
LStrip(s) == IF s # <<>> /\ s[1] = " " THEN LStrip(Tail(s)) ELSE s
RECURSIVE RStrip(_)
RStrip(s) ==
  IF s # <<>> /\ s[Len(s)] = " " THEN RStrip(SubSeq(s, 1, Len(s) - 1)) ELSE s
Strip(s) == RStrip(LStrip(s))

\* re.sub(d (.+?) d, open \1 close, s) from position i on: the leftmost
\* match, its group the shortest, then on behind the match. A tag is one
\* element of the result.
RECURSIVE SubFrom(_, _, _, _, _)
SubFrom(s, i, d, open, close) ==
  IF i > Len(s) THEN <<>>
  ELSE LET ends == {j \in (i + Len(d) + 1)..Len(s) : HasAt(s, j, d)}
       IN  IF HasAt(s, i, d) /\ ends # {}
             THEN <<open>> \o SubSeq(s, i + Len(d), Min(ends) - 1) \o <<close>>
                    \o SubFrom(s, Min(ends) + Len(d), d, open, close)
             ELSE <<s[i]>> \o SubFrom(s, i + 1, d, open, close)

\* The code-span delimiter, as a character of a line.
Backtick == "backtick"

\* inline with the italic substitution made before the bold one.
inlineItalicFirst(s) ==
  LET ital == SubFrom(s, 1, <<"*">>, "<em>", "</em>")
      bold == SubFrom(ital, 1, <<"*", "*">>, "<strong>", "</strong>")
  IN  SubFrom(bold, 1, <<Backtick>>, "<code>", "</code>")

\* inline: bold, then italic, then code span.
inline(s) ==
  LET bold == SubFrom(s, 1, <<"*", "*">>, "<strong>", "</strong>")
      ital == SubFrom(bold, 1, <<"*">>, "<em>", "</em>")
  IN  SubFrom(ital, 1, <<Backtick>>, "<code>", "</code>")

\* re.match(r"^[-*] ", line)
IsUlItem(s) == Len(s) >= 2 /\ s[1] \in {"-", "*"} /\ s[2] = " "

\* The length of the match of r"^\d+\. " in line, 0 when there is none.
RECURSIVE DigitRun(_)
DigitRun(s) == IF s # <<>> /\ s[1] \in Digits THEN 1 + DigitRun(Tail(s)) ELSE 0
OlPrefix(s) ==
  LET n == DigitRun(s)
  IN  IF n >= 1 /\ HasAt(s, n + 1, <<".", " ">>) THEN n + 2 ELSE 0

IsRule(s) ==
  Strip(s) \in {<<"-", "-", "-">>, <<"*", "*", "*">>, <<"_", "_", "_">>}

\* An element of out: its markup and its inline content.
El(tag, body) == [tag |-> tag, body |-> body]

\* close_lists(): what it leaves of out, in_ul, in_ol.
close_listsUlKept(o, ul, ol) ==
  [out |-> IF ol THEN Append(o, El("</ol>", <<>>)) ELSE o,
   in_ul |-> ul, in_ol |-> FALSE]

close_lists(o, ul, ol) ==
  LET o1 == IF ul THEN Append(o, El("</ul>", <<>>)) ELSE o
      o2 == IF ol THEN Append(o1, El("</ol>", <<>>)) ELSE o1
  IN  [out |-> o2, in_ul |-> FALSE, in_ol |-> FALSE]

\* LineStep whose unordered item leaves an open ordered list as it is.
LineStepNoSwitch(o, ul, ol, line) ==
  LET closed == close_lists(o, ul, ol)
      block(tag, body) == [closed EXCEPT !.out = Append(@, El(tag, body))]
  IN  IF StartsWith(line, <<"#", "#", "#", " ">>)
        THEN block("h4", inline(From(line, 4)))
      ELSE IF StartsWith(line, <<"#", "#", " ">>)
        THEN block("h3", inline(From(line, 3)))
      ELSE IF StartsWith(line, <<"#", " ">>)
        THEN block("h2", inline(From(line, 2)))
      ELSE IF IsRule(line)
        THEN block("hr", <<>>)
      ELSE IF IsUlItem(line)
        THEN LET o2 == IF ~ul THEN Append(o, El("<ul>", <<>>)) ELSE o
             IN  [out |-> Append(o2, El("li", inline(From(line, 2)))),
                  in_ul |-> TRUE, in_ol |-> ol]
      ELSE IF OlPrefix(line) > 0
        THEN LET o1 == IF ul THEN Append(o, El("</ul>", <<>>)) ELSE o
                 o2 == IF ~ol THEN Append(o1, El("<ol>", <<>>)) ELSE o1
             IN  [out |-> Append(o2, El("li", inline(From(line, OlPrefix(line))))),
                  in_ul |-> FALSE, in_ol |-> TRUE]
      ELSE IF Strip(line) = <<>>
        THEN block("", <<>>)
      ELSE block("p", inline(line))

\* One pass of "for line in lines": the if / elif chain.
LineStep(o, ul, ol, line) ==
  LET closed == close_lists(o, ul, ol)
      block(tag, body) == [closed EXCEPT !.out = Append(@, El(tag, body))]
  IN  IF StartsWith(line, <<"#", "#", "#", " ">>)
        THEN block("h4", inline(From(line, 4)))
      ELSE IF StartsWith(line, <<"#", "#", " ">>)
        THEN block("h3", inline(From(line, 3)))
      ELSE IF StartsWith(line, <<"#", " ">>)
        THEN block("h2", inline(From(line, 2)))
      ELSE IF IsRule(line)
        THEN block("hr", <<>>)
      ELSE IF IsUlItem(line)
        THEN LET o1 == IF ol THEN Append(o, El("</ol>", <<>>)) ELSE o
                 o2 == IF ~ul THEN Append(o1, El("<ul>", <<>>)) ELSE o1
             IN  [out |-> Append(o2, El("li", inline(From(line, 2)))),
                  in_ul |-> TRUE, in_ol |-> FALSE]
      ELSE IF OlPrefix(line) > 0
        THEN LET o1 == IF ul THEN Append(o, El("</ul>", <<>>)) ELSE o
                 o2 == IF ~ol THEN Append(o1, El("<ol>", <<>>)) ELSE o1
             IN  [out |-> Append(o2, El("li", inline(From(line, OlPrefix(line))))),
                  in_ul |-> FALSE, in_ol |-> TRUE]
      ELSE IF Strip(line) = <<>>
        THEN block("", <<>>)
      ELSE block("p", inline(line))

\* The loop body on the next line of the text.
RenderLine ==
  /\ ~rendered /\ li >= 1 /\ li <= Len(lines)
  /\ LET r == LineStep(out, in_ul, in_ol, lines[li])
     IN  out' = r.out /\ in_ul' = r.in_ul /\ in_ol' = r.in_ol
  /\ li' = li + 1
  /\ UNCHANGED <<lines, rendered, render_calls, first_render>>
  /\ UNCHANGED <<envVars, mainVars, histVars, equivVars, webVars>>

\* RenderEnd without the close_lists() behind the loop.
RenderEndOpen ==
  /\ ~rendered /\ li = Len(lines) + 1
  /\ rendered' = TRUE
  /\ first_render' = IF first_render = <<>>
                       THEN <<[text |-> lines, out |-> out]>>
                       ELSE first_render
  /\ UNCHANGED <<lines, li, out, in_ul, in_ol, render_calls>>
  /\ UNCHANGED <<envVars, mainVars, histVars, equivVars, webVars>>

\* After the loop: close_lists() and return "\n".join(out).
RenderEnd ==
  /\ ~rendered /\ li = Len(lines) + 1
  /\ LET r == close_lists(out, in_ul, in_ol)
     IN  out' = r.out /\ in_ul' = r.in_ul /\ in_ol' = r.in_ol
  /\ rendered' = TRUE
  /\ first_render' = IF first_render = <<>>
                       THEN <<[text |-> lines, out |-> out']>>
                       ELSE first_render
  /\ UNCHANGED <<lines, li, render_calls>>
  /\ UNCHANGED <<envVars, mainVars, histVars, equivVars, webVars>>

\* text.split("\n") of any text of at most MaxLines lines: at least one line.
InitRender ==
  /\ lines \in BSeq(LineSamples, MaxLines) \ {<<>>}
  /\ li = 1 /\ out = <<>> /\ in_ul = FALSE /\ in_ol = FALSE
  /\ rendered = FALSE
  /\ render_calls = 1 /\ first_render = <<>>
  /\ store = <<>> /\ api_key = FALSE /\ args_user_id = ""
  /\ MainInit /\ WebIdle
  /\ oracle = NoOracle /\ first_run = <<>>

NextRender == RenderLine \/ RenderEnd

SpecRender == InitRender /\ [][NextRender]_vars

\* ------------------------------------------ md_to_html on one line of marks
\* The characters of the line: an emphasis marker, a letter, the code
\* delimiter.
InlineChars == {"*", "a", Backtick}

\* "**a*b*c**", "*a **b** c*" and the code span around "*a*".
InlineExamples ==
  { <<"*", "*", "a", "*", "b", "*", "c", "*", "*">>,
    <<"*", "a", " ", "*", "*", "b", "*", "*", " ", "c", "*">>,
    <<Backtick, "*", "a", "*", Backtick>> }

\* md_to_html(text) entered on a text of one line.
InitInline ==
  /\ lines \in {<<l>> : l \in BSeq(InlineChars, MaxInline) \cup InlineExamples}
  /\ li = 1 /\ out = <<>> /\ in_ul = FALSE /\ in_ol = FALSE
  /\ rendered = FALSE
  /\ render_calls = 1 /\ first_render = <<>>
  /\ store = <<>> /\ api_key = FALSE /\ args_user_id = ""
  /\ MainInit /\ WebIdle
  /\ oracle = NoOracle /\ first_run = <<>>

SpecInline == InitInline /\ [][NextRender]_vars

\* ------------------------------------------- md_to_html, called repeatedly
\* The lines of the texts rendered one after another: an item of an
\* unordered list, an item of an ordered list, a paragraph.
CallSamples == { <<"-", " ", "a">>, <<"1", ".", " ", "x">>,
                 <<"t", "e", "x", "t">> }

Texts == BSeq(CallSamples, MaxCallLines) \ {<<>>}

\* md_to_html(text) entered with the buffer of the invocation before it.
RenderCallBufferKept ==
  /\ rendered /\ render_calls < MaxRenders
  /\ lines' \in Texts
  /\ li' = 1 /\ in_ul' = FALSE /\ in_ol' = FALSE
  /\ rendered' = FALSE
  /\ render_calls' = render_calls + 1
  /\ UNCHANGED <<out, first_render>>
  /\ UNCHANGED <<envVars, mainVars, histVars, equivVars, webVars>>

\* md_to_html(text) entered after an earlier invocation has returned: lines,
\* out, in_ul and in_ol are locals, made anew.
RenderCall ==
  /\ rendered /\ render_calls < MaxRenders
  /\ lines' \in Texts
  /\ li' = 1 /\ out' = <<>> /\ in_ul' = FALSE /\ in_ol' = FALSE
  /\ rendered' = FALSE
  /\ render_calls' = render_calls + 1
  /\ UNCHANGED first_render
  /\ UNCHANGED <<envVars, mainVars, histVars, equivVars, webVars>>

InitCalls ==
  /\ lines \in Texts
  /\ li = 1 /\ out = <<>> /\ in_ul = FALSE /\ in_ol = FALSE
  /\ rendered = FALSE
  /\ render_calls = 1 /\ first_render = <<>>
  /\ store = <<>> /\ api_key = FALSE /\ args_user_id = ""
  /\ MainInit /\ WebIdle
  /\ oracle = NoOracle /\ first_run = <<>>

NextCalls == RenderCall \/ RenderLine \/ RenderEnd

SpecCalls == InitCalls /\ [][NextCalls]_vars

\* ------------------------------------------------------- app.py: send-now
\* next((u for u in users if u[field] == key), None)
FindUser(field, key) == SelectSeq(store, LAMBDA u : u[field] = key)

\* What the two handlers are asked for: a name or an id of the store, or
\* one that nobody has.
AskedNames == Range(UserNames) \cup {"nobody"}
AskedIds == Range(UserIds) \cup {"nobody"}

\* jsonify({"success": ..., "message": ...})
Response(success, message) == [success |-> success, message |-> message]

\* "if not user: return jsonify(success False)": no thread is started.
Refuse(via, key, message) ==
  /\ reqs' = Append(reqs, [via |-> via, key |-> key, user |-> <<>>,
                           pc |-> "returned", worker |-> 0,
                           response |-> <<Response(FALSE, message)>>])
  /\ UNCHANGED workers

\* threading.Thread(target=_run_scheduler, args=(["--user-id", id],),
\* daemon=True).start(): the thread exists, the handler is at its return.
StartThread(via, key, user) ==
  /\ workers' = Append(workers, [args |-> <<"--user-id", user.id>>,
                                 state |-> "thread"])
  /\ reqs' = Append(reqs, [via |-> via, key |-> key, user |-> <<user>>,
                           pc |-> "started", worker |-> Len(workers) + 1,
                           response |-> <<>>])

\* POST /api/send_now with {"name": name}, up to Thread.start().
api_send_now ==
  /\ Len(reqs) < MaxRequests
  /\ \E name \in AskedNames :
       LET found == FindUser("name", name)
       IN  IF found = <<>> THEN Refuse("name", name, "register first")
                           ELSE StartThread("name", name, found[1])
  /\ UNCHANGED <<envVars, mainVars, histVars, equivVars, renderVars, dashVars>>

\* POST /api/send_now/<uid>, up to Thread.start().
api_send_now_uid ==
  /\ Len(reqs) < MaxRequests
  /\ \E uid \in AskedIds :
       LET found == FindUser("id", uid)
       IN  IF found = <<>> THEN Refuse("id", uid, "not found")
                           ELSE StartThread("id", uid, found[1])
  /\ UNCHANGED <<envVars, mainVars, histVars, equivVars, renderVars, dashVars>>

\* The success response of request r: a fixed message by name, the
\* subscriber's name in the message by id.
Accepted(r) ==
  IF reqs[r].via = "name" THEN Response(TRUE, <<"generating">>)
                          ELSE Response(TRUE, <<"started", reqs[r].user[1].name>>)

\* The handler of request r returning only when its worker's process has
\* ended, and reporting how.
ReturnJoined(r) ==
  /\ reqs[r].pc = "started"
  /\ workers[reqs[r].worker].state \in {"exit0", "exit1", "popen_raised"}
  /\ reqs' = [reqs EXCEPT ![r].pc = "returned",
                          ![r].response =
                             <<Response(workers[reqs[r].worker].state = "exit0",
                                        <<"finished">>)>>]
  /\ UNCHANGED workers
  /\ UNCHANGED <<envVars, mainVars, histVars, equivVars, renderVars, dashVars>>

\* "return jsonify(success True)" of request r, behind Thread.start().
Return(r) ==
  /\ reqs[r].pc = "started"
  /\ reqs' = [reqs EXCEPT ![r].pc = "returned",
                          ![r].response = <<Accepted(r)>>]
  /\ UNCHANGED workers
  /\ UNCHANGED <<envVars, mainVars, histVars, equivVars, renderVars, dashVars>>

SendNowReturn == \E r \in 1..Len(reqs) : Return(r)

\* _run_scheduler(args) in its thread: subprocess.Popen starts scheduler.py
\* with the arguments and does not wait, or raises.
RunScheduler ==
  /\ \E w \in 1..Len(workers) :
       /\ workers[w].state = "thread"
       /\ \E st \in {"process", "popen_raised"} :
            workers' = [workers EXCEPT ![w].state = st]
  /\ UNCHANGED reqs
  /\ UNCHANGED <<envVars, mainVars, histVars, equivVars, renderVars, dashVars>>

\* The scheduler.py process of a worker ends, with one of main()'s codes.
SchedulerExit ==
  /\ \E w \in 1..Len(workers) :
       /\ workers[w].state = "process"
       /\ \E st \in {"exit0", "exit1"} :
            workers' = [workers EXCEPT ![w].state = st]
  /\ UNCHANGED reqs
  /\ UNCHANGED <<envVars, mainVars, histVars, equivVars, renderVars, dashVars>>

\* The web application up, over a store of subscribers that each watch A.
InitSendNow ==
  /\ store \in {st \in Stores : \A i \in 1..Len(st) : Bystander(st[i])}
  /\ api_key = TRUE /\ args_user_id = ""
  /\ MainInit /\ RenderIdle /\ WebIdle
  /\ oracle = NoOracle /\ first_run = <<>>

NextSendNow ==
  \/ api_send_now
  \/ api_send_now_uid
  \/ SendNowReturn
  \/ RunScheduler
  \/ SchedulerExit

SpecSendNow == InitSendNow /\ [][NextSendNow]_vars

\* --------------------------------------------- app.py: the subscriber store
\* A record as api_register_user writes it. schedule stands for the pair
\* (schedule_hour, schedule_minute), which the handler reads and writes
\* together.
Schedules == {<<9, 0>>, <<10, 30>>}

\* str(uuid.uuid4()): an id no record of another name carries.
IdOf(name) == UserIds[CHOOSE i \in 1..Len(UserNames) : UserNames[i] = name]

\* A record of the store with the fields the orchestrator does not read.
Enriched(st) ==
  [i \in 1..Len(st) |->
     [id |-> st[i].id, name |-> st[i].name, email |-> "e1",
      stocks |-> st[i].stocks, industries |-> st[i].industries,
      schedule |-> <<9, 0>>, active |-> st[i].active,
      created_at |-> 0, updated_at |-> 0]]

\* if not name or not email: return, before the file is read.
Rejected(data) == data.name = "" \/ data.email = ""

\* next((u for u in us if u[field] == key), None), as the place of u in us,
\* 0 for None.
FirstWhere(us, field, key) ==
  IF \E i \in 1..Len(us) : us[i][field] = key
    THEN CHOOSE i \in 1..Len(us) :
           us[i][field] = key /\ \A j \in 1..(i - 1) : us[j][field] # key
    ELSE 0

\* Registered with the record of a known name written anew.
RegisteredAnew(us, data, now) ==
  LET k == FirstWhere(us, "name", data.name)
      new == [id |-> IdOf(data.name), name |-> data.name,
              email |-> data.email, stocks |-> data.stocks,
              industries |-> data.industries,
              schedule |-> data.schedule, active |-> "true",
              created_at |-> now, updated_at |-> now]
  IN  IF k # 0 THEN [us EXCEPT ![k] = new] ELSE Append(us, new)

\* The list api_register_user saves, from the list us it has loaded. The
\* name and the address of the body are taken as strip() and lower() leave
\* them.
Registered(us, data, now) ==
  LET k == FirstWhere(us, "name", data.name)
  IN  IF k # 0
        THEN [us EXCEPT ![k] = [@ EXCEPT !.email = data.email,
                                          !.stocks = data.stocks,
                                          !.industries = data.industries,
                                          !.schedule = data.schedule,
                                          !.updated_at = now]]
        ELSE Append(us, [id |-> IdOf(data.name), name |-> data.name,
                         email |-> data.email, stocks |-> data.stocks,
                         industries |-> data.industries,
                         schedule |-> data.schedule, active |-> "true",
                         created_at |-> now, updated_at |-> now])

\* api_toggle_user saves only a list it has found the id in; on a record
\* without the key user["active"] raises KeyError and nothing is saved.
CanToggle(us, uid) ==
  LET k == FirstWhere(us, "id", uid)
  IN  k # 0 /\ us[k].active # "absent"

Toggled(us, uid) ==
  LET k == FirstWhere(us, "id", uid)
  IN  [us EXCEPT ![k].active = IF @ = "true" THEN "false" ELSE "true"]

\* new_users of api_delete_user, saved when it is shorter than users.
Deleted(us, uid) == SelectSeq(us, LAMBDA u : u.id # uid)

\* ------------------------------------- the dashboard beside a running main()
\* The requests the dashboard is sent while the orchestrator runs: any name
\* with any one stock to watch; the run reads neither the address nor the
\* schedule nor the time stamps before its dispatch, and they are left as
\* they are.
RunRequests ==
  [name : Range(UserNames), email : {"e1"},
   stocks : {<<n>> : n \in StockNames}, industries : {<<>>},
   schedule : {<<9, 0>>}]

Running == pc \notin {"main", "done", "exit"}

\* The handlers the run does not start, each between two steps of main().
StoreRegister ==
  /\ Running
  /\ \E data \in RunRequests :
       /\ ~Rejected(data)
       /\ store' = Registered(store, data, 0)
  /\ UNCHANGED <<api_key, args_user_id>>
  /\ UNCHANGED <<mainVars, histVars, equivVars, renderVars, webVars>>

StoreToggle ==
  /\ Running
  /\ \E uid \in Range(UserIds) :
       /\ CanToggle(store, uid)
       /\ store' = Toggled(store, uid)
  /\ UNCHANGED <<api_key, args_user_id>>
  /\ UNCHANGED <<mainVars, histVars, equivVars, renderVars, webVars>>

StoreDelete ==
  /\ Running
  /\ \E uid \in Range(UserIds) :
       /\ Len(Deleted(store, uid)) # Len(store)
       /\ store' = Deleted(store, uid)
  /\ UNCHANGED <<api_key, args_user_id>>
  /\ UNCHANGED <<mainVars, histVars, equivVars, renderVars, webVars>>

\* api_save_config with another gemini_api_key, or none.
ConfigSave ==
  /\ Running
  /\ api_key' = ~api_key
  /\ UNCHANGED <<store, args_user_id>>
  /\ UNCHANGED <<mainVars, histVars, equivVars, renderVars, webVars>>

InitSnapshot ==
  /\ store \in {Enriched(st) : st \in
                  {t \in Stores : /\ t # <<>>
                                  /\ \A i \in 1..Len(t) :
                                       /\ Len(t[i].stocks) = 1
                                       /\ t[i].industries = <<>>}}
  /\ api_key = TRUE
  /\ args_user_id \in {"", UserIds[1]}
  /\ args_user_id # "" =>
       \A i \in 1..Len(store) : store[i].id # args_user_id => Bystander(store[i])
  /\ MainInit /\ RenderIdle /\ WebIdle
  /\ oracle = NoOracle /\ first_run = <<>>

NextSnapshot ==
  \/ Next
  \/ StoreRegister
  \/ StoreToggle
  \/ StoreDelete
  \/ ConfigSave

SpecSnapshot == InitSnapshot /\ [][NextSnapshot]_vars

\* ------------------------------- app.py: the handlers that write the store
\* The bodies of the register requests: a name, an address, one stock to
\* watch and a schedule, and three bodies the handler refuses.
RegisterRequests ==
  [name : Range(UserNames), email : {"e1", "e2"},
   stocks : {<<n>> : n \in StockNames}, industries : {<<>>},
   schedule : Schedules]
  \cup [name : {"", "n1"}, email : {""}, stocks : {<<"A">>},
        industries : {<<>>}, schedule : {<<9, 0>>}]
  \cup [name : {""}, email : {"e1"}, stocks : {<<"A">>},
        industries : {<<>>}, schedule : {<<9, 0>>}]

\* datetime.datetime.now(): later for every request received.
Clock == Len(handling) + Len(handled) + 1

RemoveAt(q, h) == [i \in 1..(Len(q) - 1) |-> IF i < h THEN q[i] ELSE q[i + 1]]

\* A handler up to its load_users(): the app serves each request on a thread
\* of its own (app.run, the development server), so a second handler may
\* read the file before the first has written it. max is the number of
\* requests the dashboard is sent.
Load(max, op, arg) ==
  /\ Len(handling) + Len(handled) < max
  /\ handling' = Append(handling, [op |-> op, arg |-> arg, users |-> store,
                                   now |-> Clock])
  /\ UNCHANGED <<store, handled>>

\* api_register_user as far as users = load_users(), or its early return.
RegisterLoad(max) ==
  /\ \E data \in RegisterRequests :
       IF Rejected(data)
         THEN /\ Len(handling) + Len(handled) < max
              /\ handled' = Append(handled, [op |-> "register", arg |-> data,
                                             seen |-> store, now |-> Clock,
                                             saved |-> FALSE])
              /\ UNCHANGED <<store, handling>>
         ELSE Load(max, "register", data)
  /\ UNCHANGED <<api_key, args_user_id, reqs, workers>>
  /\ UNCHANGED <<mainVars, histVars, equivVars, renderVars>>

\* api_toggle_user as far as users = load_users().
ToggleLoad(max) ==
  /\ \E uid \in Range(UserIds) : Load(max, "toggle", uid)
  /\ UNCHANGED <<api_key, args_user_id, reqs, workers>>
  /\ UNCHANGED <<mainVars, histVars, equivVars, renderVars>>

\* api_delete_user as far as users = load_users().
DeleteLoad(max) ==
  /\ \E uid \in Range(UserIds) : Load(max, "delete", uid)
  /\ UNCHANGED <<api_key, args_user_id, reqs, workers>>
  /\ UNCHANGED <<mainVars, histVars, equivVars, renderVars>>

\* Whether the handler reaches its save_users, and the list it saves.
Saves(h) ==
  CASE h.op = "register" -> TRUE
    [] h.op = "toggle" -> CanToggle(h.users, h.arg)
    [] h.op = "delete" -> Len(Deleted(h.users, h.arg)) # Len(h.users)

Saved(h) ==
  CASE h.op = "register" -> Registered(h.users, h.arg, h.now)
    [] h.op = "toggle" -> Toggled(h.users, h.arg)
    [] h.op = "delete" -> Deleted(h.users, h.arg)

\* The rest of a handler: save_users(users) of the list it loaded and
\* changed, or the return without it.
HandlerReturn(h) ==
  /\ LET r == handling[h]
     IN  /\ store' = IF Saves(r) THEN Saved(r) ELSE store
         /\ handled' = Append(handled, [op |-> r.op, arg |-> r.arg,
                                        seen |-> r.users, now |-> r.now,
                                        saved |-> Saves(r)])
  /\ handling' = RemoveAt(handling, h)
  /\ UNCHANGED <<api_key, args_user_id, reqs, workers>>
  /\ UNCHANGED <<mainVars, histVars, equivVars, renderVars>>

StoreReturn == \E h \in 1..Len(handling) : HandlerReturn(h)

\* The dashboard's requests handled at once, over a store of up to two
\* subscribers watching A.
InitStore ==
  /\ store \in {Enriched(st) : st \in
                  {t \in Stores : \A i \in 1..Len(t) :
                                    /\ t[i].stocks = <<"A">>
                                    /\ t[i].industries = <<>>}}
  /\ api_key = TRUE /\ args_user_id = ""
  /\ MainInit /\ RenderIdle /\ WebIdle
  /\ oracle = NoOracle /\ first_run = <<>>

NextStore ==
  \/ RegisterLoad(MaxConcurrent)
  \/ ToggleLoad(MaxConcurrent)
  \/ DeleteLoad(MaxConcurrent)
  \/ StoreReturn

SpecStore == InitStore /\ [][NextStore]_vars

\* The dashboard's requests handled one after the other, from an empty file.
InitSerial ==
  /\ store = <<>>
  /\ api_key = TRUE /\ args_user_id = ""
  /\ MainInit /\ RenderIdle /\ WebIdle
  /\ oracle = NoOracle /\ first_run = <<>>

NextSerial ==
  \/ handling = <<>> /\ RegisterLoad(MaxSerial)
  \/ handling = <<>> /\ ToggleLoad(MaxSerial)
  \/ handling = <<>> /\ DeleteLoad(MaxSerial)
  \/ StoreReturn

SpecSerial == InitSerial /\ [][NextSerial]_vars

\* ---------------------------------------------------- the run, as claimed
\* The subscribers the command line selects from the store, the units their
\* watchlists reference, and where the run stands.
Broadcast == args_user_id = ""

Selected ==
  IF Broadcast THEN SelectSeq(store, LAMBDA u : u.active # "false")
               ELSE SelectSeq(store, LAMBDA u : u.id = args_user_id)

WatchlistOf(u) == ItemsOf(u.stocks, u.industries)

Referenced == UNION {Range(WatchlistOf(Selected[i])) : i \in 1..Len(Selected)}

RecordOf(uid) == SelectSeq(store, LAMBDA u : u.id = uid)[1]

Finished == pc \in {"done", "exit"}

\* The unit loop has been left.
ResearchOver ==
  \/ pc \in {"s_overview", "s_risk", "s_footer", "s_send", "b_user",
             "b_overview", "b_risk", "b_footer", "b_send", "done"}
  \/ pc = "exit" /\ news_calls > 0

\* One of the two fatal conditions holds: no credential, or --user-id names
\* nobody of the store.
Fatal == ~api_key \/ (~Broadcast /\ Selected = <<>>)

NoWorkIssued ==
  /\ steps = <<>> /\ news_calls = 0 /\ sent = <<>> /\ artifacts = {}
  /\ \A un \in Units : gen_calls[un] = 0
  /\ \A uid \in Range(UserIds) : sec_calls[uid] = NoCalls

CardUnits(cards) == [i \in 1..Len(cards) |-> <<cards[i].type, cards[i].target>>]

Present(un) == un \in DOMAIN report_map

\* C1: in any run, broadcast or single-subscriber, run_research is never
\* invoked twice for a unit, and once the unit loop is over it has been
\* invoked exactly once for every unit the selected watchlists reference,
\* however often the unit is referenced.
C1_DedupExactlyOnce ==
  /\ \A un \in Units : gen_calls[un] <= 1
  /\ ResearchOver => \A un \in Referenced : gen_calls[un] = 1

\* C2: in a broadcast run no failure of a unit ends the unit loop or the
\* subscriber loop: once the unit loop is over every collected unit has been
\* attempted once, a unit whose text was generated and saved is cached with
\* that text, and when the run has ended every active subscriber with at
\* least one present unit has had a dispatch of a digest with cards.
C2_FailureIsolation ==
  Broadcast =>
    /\ (last_research # <<>> /\ last_research[2] = "text")
         => /\ Present(last_research[1])
            /\ report_map[last_research[1]]
                 = TextOf(last_research[1], gen_calls[last_research[1]])
    /\ ResearchOver =>
         \A un \in Referenced :
           /\ gen_calls[un] = 1
           /\ TextOf(un, 1) \in artifacts
                => Present(un) /\ report_map[un] = TextOf(un, 1)
    /\ Finished =>
         \A i \in 1..Len(Selected) :
           (\E un \in Range(WatchlistOf(Selected[i])) : Present(un))
             => \E k \in 1..Len(sent) :
                  sent[k].to = Selected[i].id /\ sent[k].cards # <<>>

\* C2's case: a broadcast run has ended in which a run_research call raised,
\* its unit is absent, and two subscribers were still served.
C2_Witness ==
  /\ Broadcast /\ pc = "done" /\ unit_raised
  /\ \E un \in Referenced : ~Present(un)
  /\ Len(sent) = 2

\* C3: in both modes every send_email_to call carries a digest with at least
\* one card, and goes to a subscriber one of whose units has a present result.
C3_SkipInvariant ==
  \A k \in 1..Len(sent) :
    /\ sent[k].cards # <<>>
    /\ \E un \in Range(WatchlistOf(RecordOf(sent[k].to))) : Present(un)

\* C3's case: a broadcast run has ended, one subscriber was served and the
\* other, whose watchlist is not empty, has no present unit and no mail.
C3_Witness ==
  /\ Broadcast /\ pc = "done" /\ Len(Selected) = 2 /\ Len(sent) = 1
  /\ \E i \in 1..2 :
       /\ WatchlistOf(Selected[i]) # <<>>
       /\ \A un \in Range(WatchlistOf(Selected[i])) : ~Present(un)
       /\ sent[1].to # Selected[i].id

\* C4: the cards of every dispatched digest are exactly the subscriber's
\* units with a present result, one card per unit, the stocks in watchlist
\* order and then the industries in watchlist order.
C4_CardsPerUnit ==
  \A k \in 1..Len(sent) :
    LET units == CardUnits(sent[k].cards)
    IN  /\ \A i, j \in 1..Len(units) : i # j => units[i] # units[j]
        /\ units = SelectSeq(WatchlistOf(RecordOf(sent[k].to)), Present)

\* C5: every card of every dispatched digest holds the text of the one
\* run_research call made for its unit in the run, so two cards for one
\* unit, of one subscriber or of two, never differ.
C5_SharedText ==
  \A k \in 1..Len(sent) :
    \A i \in 1..Len(sent[k].cards) :
      LET un == CardUnits(sent[k].cards)[i]
      IN  /\ gen_calls[un] = 1
          /\ sent[k].cards[i].content = TextOf(un, 1)

\* C7: when no credential is configured, or --user-id names nobody of the
\* store, the run never leaves the entry checks, issues no generation call,
\* no artifact write and no dispatch, and ends by exit code 1.
C7_FatalBeforeWork ==
  Fatal =>
    /\ pc \in {"main", "loaded", "exit"}
    /\ NoWorkIssued
    /\ Finished => pc = "exit" /\ exit_code = 1

\* C7's case: the credential is there, --user-id names nobody, the run has
\* ended.
C7_Witness ==
  /\ api_key /\ ~Broadcast /\ Selected = <<>> /\ pc = "exit" /\ exit_code = 1

\* C8: a run that passed the credential check and the subscriber lookup ends
\* with exit code 0 whatever fails afterwards: exit code 1 is left to the two
\* fatal checks.
C8_RecoverableExitZero ==
  /\ Finished => (exit_code = 1 <=> Fatal) /\ (exit_code = 0 <=> ~Fatal)
  /\ ~Finished => exit_code = -1
  /\ pc = "done" => exit_code = 0

\* C8's case: a run has ended with exit code 0 after a run_research call
\* raised, a section fell back and the delivery failed.
C8_Witness ==
  /\ pc = "done" /\ exit_code = 0 /\ unit_raised
  /\ portfolio_risk = "fallback" /\ news_summary = "fallback"
  /\ last_sent # <<>> /\ ~last_sent[1].ok

\* There is nothing to do: the subscriber of --user-id has no stock and no
\* industry, or the active subscribers reference no unit.
NothingToDo ==
  IF Broadcast THEN Referenced = {}
               ELSE Selected # <<>> /\ WatchlistOf(Selected[1]) = <<>>

\* C9: when there is nothing to do, the run issues no generation call, the
\* news digest included, and no dispatch, never gets beyond the entry checks,
\* and (the credential being there) ends by exit code 0.
C9_NothingToDo ==
  NothingToDo =>
    /\ pc \in {"main", "loaded", "exit"}
    /\ NoWorkIssued
    /\ (Finished /\ api_key) => pc = "exit" /\ exit_code = 0

\* C9's case: a broadcast run over a store whose only watchlists belong to
\* inactive subscribers has ended.
C9_Witness ==
  /\ Broadcast /\ NothingToDo /\ pc = "exit" /\ exit_code = 0
  /\ \E i \in 1..Len(store) : store[i].stocks # <<>>

\* ----------------------------------------------------- md_to_html, as claimed
\* What the line is to an open list: an item of an unordered list, of an
\* ordered list, or no item at all.
ItemKind(line) ==
  IF StartsWith(line, <<"#", " ">>) \/ StartsWith(line, <<"#", "#", " ">>)
       \/ StartsWith(line, <<"#", "#", "#", " ">>) \/ IsRule(line)
    THEN "none"
  ELSE IF IsUlItem(line) THEN "ul"
  ELSE IF OlPrefix(line) > 0 THEN "ol"
  ELSE "none"

Tags(o) == [i \in 1..Len(o) |-> o[i].tag]

\* The text ["- a", "- b", "text", "- c"] and its rendering.
ListExample ==
  << <<"-", " ", "a">>, <<"-", " ", "b">>, <<"t", "e", "x", "t">>,
     <<"-", " ", "c">> >>

ListExampleOut ==
  << El("<ul>", <<>>), El("li", <<"a">>), El("li", <<"b">>), El("</ul>", <<>>),
     El("p", <<"t", "e", "x", "t">>),
     El("<ul>", <<>>), El("li", <<"c">>), El("</ul>", <<>>) >>

\* What one pass of the loop appended to out.
Emitted == SubSeq(out', Len(out) + 1, Len(out'))

\* C10: a line that is no item of the open list's kind closes that list
\* before its own element is emitted; an item of the open kind adds its item
\* alone, opening and closing nothing; and ["- a", "- b", "text", "- c"]
\* renders as a closed list of two items, a paragraph, a list of one item.
C10_ListClosing ==
  /\ [][(~rendered /\ li <= Len(lines) /\ li' = li + 1) =>
          LET kind == ItemKind(lines[li])
          IN  /\ SubSeq(out', 1, Len(out)) = out
              /\ (in_ul /\ kind # "ul") =>
                   /\ Emitted[1].tag = "</ul>" /\ Len(Emitted) >= 2 /\ ~in_ul'
                   /\ \A i \in 2..Len(Emitted) : Emitted[i].tag # "</ul>"
              /\ (in_ol /\ kind # "ol") =>
                   /\ Emitted[1].tag = "</ol>" /\ Len(Emitted) >= 2 /\ ~in_ol'
                   /\ \A i \in 2..Len(Emitted) : Emitted[i].tag # "</ol>"
              /\ (in_ul /\ kind = "ul") => Tags(Emitted) = <<"li">> /\ in_ul'
              /\ (in_ol /\ kind = "ol") => Tags(Emitted) = <<"li">> /\ in_ol'
       ]_vars
  /\ []((rendered /\ lines = ListExample) => out = ListExampleOut)

\* C10's case: ["- a", "- b", "text", "- c"] has been rendered.
C10_Witness == rendered /\ lines = ListExample /\ Len(out) = 8

\* ------------------------------------------------ the two modes, as claimed
\* The digest of the run at hand, without its recipient and card texts.
DigestShape ==
  IF last_sent = <<>> THEN <<>>
  ELSE <<[news |-> last_sent[1].news, overview |-> last_sent[1].overview,
          risk |-> last_sent[1].risk, footer |-> last_sent[1].footer,
          ok |-> last_sent[1].ok]>>

\* C6: for a subscriber S with a non-empty watchlist who is the only active
\* subscriber, the broadcast run issues the same external calls in the same
\* order as the single-subscriber run for S did, sends a digest with the
\* same cards in the same order and the same sections, or like it sends
\* none, and ends with the same exit code.
C6_ModeEquivalence ==
  (Finished /\ first_run # <<>>) =>
    first_run[1] = [Summary EXCEPT !.digest = DigestShape]

\* -------------------------------------------- md_to_html again, as claimed
\* C11: md_to_html is a function of its text alone: an invocation on the
\* text of the first invocation returns the output the first returned,
\* whatever was rendered in between, and every invocation starts with an
\* empty buffer and no list open.
C11_RenderDeterminism ==
  /\ (rendered /\ first_render # <<>> /\ lines = first_render[1].text)
       => out = first_render[1].out
  /\ (~rendered /\ li = 1) => out = <<>> /\ ~in_ul /\ ~in_ol

\* C11's case: the third invocation has returned; it rendered the text of
\* the first, which ends inside a list.
C11_Witness ==
  /\ rendered /\ render_calls = 3 /\ lines = first_render[1].text
  /\ lines[Len(lines)] = <<"-", " ", "a">>
  /\ out # <<>>

\* ------------------------------------------------- the sections, as claimed
SectionTexts == {"text", "fallback"}

Recipients == {sent[k].to : k \in 1..Len(sent)}

\* C12: each of the four section calls leaves its text or its fallback
\* string and the run goes on: after the news digest the unit loop is
\* entered, after a subscriber's overview its risk and its outlook are
\* requested, and the digest is dispatched to that subscriber with all four
\* sections in it; the run ends early only where nothing was generated.
C12_SectionFallback ==
  /\ news_calls > 0 => news_summary \in SectionTexts
  /\ (pc = "exit" /\ news_calls > 0) => DOMAIN report_map = {} /\ exit_code = 0
  /\ pc \in {"s_risk", "b_risk", "s_footer", "b_footer", "s_send", "b_send"}
       => portfolio_overview \in SectionTexts
  /\ pc \in {"s_footer", "b_footer", "s_send", "b_send"}
       => portfolio_risk \in SectionTexts
  /\ pc \in {"s_send", "b_send"} => report_footer \in SectionTexts
  /\ last_sent # <<>> =>
       /\ last_sent[1].news = news_summary
       /\ {last_sent[1].news, last_sent[1].overview, last_sent[1].risk,
           last_sent[1].footer} \subseteq SectionTexts
       /\ sec_calls[last_sent[1].to] = [name \in DOMAIN NoCalls |-> 1]
  /\ \A uid \in Range(UserIds) :
       /\ sec_calls[uid]["footer"] <= sec_calls[uid]["risk"]
       /\ sec_calls[uid]["risk"] <= sec_calls[uid]["overview"]
       /\ (Finished /\ sec_calls[uid]["overview"] > 0)
            => /\ sec_calls[uid]["risk"] > 0 /\ sec_calls[uid]["footer"] > 0
               /\ uid \in Recipients

\* C12's case: a broadcast run has ended after the news digest failed; the
\* last of two digests went out with the fallback of the news, of the
\* overview and of the risk, and the text of the outlook.
C12_Witness ==
  /\ Broadcast /\ pc = "done" /\ Len(sent) = 2
  /\ last_sent # <<>>
  /\ last_sent[1].news = "fallback" /\ last_sent[1].overview = "fallback"
  /\ last_sent[1].risk = "fallback" /\ last_sent[1].footer = "text"

\* ------------------------------------------------ the delivery, as claimed
\* The place of subscriber uid among the selected ones.
PlaceOf(uid) == CHOOSE i \in 1..Len(Selected) : Selected[i].id = uid

HasCard(u) == \E un \in Range(WatchlistOf(u)) : Present(un)

\* C13: in a broadcast run a send_email_to call that returned False ends
\* nothing: the run is never left by exit after a dispatch, and when it has
\* ended, in Done with exit code 0, every active subscriber behind the one
\* whose delivery failed that has a present unit has had its three section
\* calls and a later dispatch of its own.
C13_DeliveryIsolation ==
  Broadcast =>
    /\ sent # <<>> => pc # "exit"
    /\ \A k \in 1..Len(sent) :
         (~sent[k].ok /\ Finished) =>
           /\ pc = "done" /\ exit_code = 0
           /\ \A j \in 1..Len(Selected) :
                (j > PlaceOf(sent[k].to) /\ HasCard(Selected[j])) =>
                  /\ sec_calls[Selected[j].id] = [name \in DOMAIN NoCalls |-> 1]
                  /\ \E m \in 1..Len(sent) :
                       m > k /\ sent[m].to = Selected[j].id

\* C13's case: a broadcast run has ended in Done; the delivery to the first
\* of two subscribers failed and the second was still sent its digest.
C13_Witness ==
  /\ Broadcast /\ pc = "done" /\ Len(sent) = 2
  /\ ~sent[1].ok /\ sent[2].to # sent[1].to

\* --------------------------------------------- the call counts, as claimed
\* C14: in any run get_news_summary is called at most once, however many
\* subscribers there are, and get_portfolio_overview, get_portfolio_risk and
\* get_report_footer at most once each for a subscriber; a subscriber sent a
\* digest has had each of the three exactly once, after the one news call.
C14_CallBounds ==
  /\ news_calls <= 1
  /\ \A uid \in Range(UserIds) :
       \A name \in DOMAIN NoCalls : sec_calls[uid][name] <= 1
  /\ \A k \in 1..Len(sent) :
       /\ news_calls = 1
       /\ sec_calls[sent[k].to] = [name \in DOMAIN NoCalls |-> 1]

\* C14's case: a broadcast run has ended having served two subscribers with
\* one news call and one call of each section for each of them.
C14_Witness ==
  /\ Broadcast /\ pc = "done" /\ Len(sent) = 2 /\ news_calls = 1
  /\ \A uid \in Range(UserIds) : sec_calls[uid] = [name \in DOMAIN NoCalls |-> 1]

\* ---------------------------------------------------- no retry, as claimed
\* A run_research call for the unit has been made and left it absent.
Failed(un) == gen_calls[un] > 0 /\ ~Present(un)

\* C15: within one run no unit of work is attempted again: once a
\* run_research call has left a unit absent no further call is made for that
\* unit, no section of a subscriber is requested twice, and no subscriber is
\* sent a second digest, whether or not the first delivery failed.
C15_NoRetry ==
  /\ [][\A un \in Units : Failed(un) => gen_calls'[un] = gen_calls[un]]_vars
  /\ [](/\ news_calls <= 1
        /\ \A uid \in Range(UserIds) :
             \A name \in DOMAIN NoCalls : sec_calls[uid][name] <= 1
        /\ \A k, m \in 1..Len(sent) : k # m => sent[k].to # sent[m].to)

\* --------------------------------------------------- send-now, as claimed
\* C16: a send-now request for a subscriber of the store starts exactly one
\* worker, on --user-id and that subscriber's id, and its handler can return
\* in whatever state the worker is; the response it returns is the success
\* response fixed by the request alone. A request for nobody of the store
\* starts no worker and is refused.
C16_FireAndForget ==
  /\ \A r \in 1..Len(reqs) :
       LET found == FindUser(reqs[r].via, reqs[r].key)
       IN  /\ found = <<>> =>
                /\ reqs[r].worker = 0 /\ reqs[r].pc = "returned"
                /\ ~reqs[r].response[1].success
           /\ found # <<>> =>
                /\ reqs[r].worker \in 1..Len(workers)
                /\ workers[reqs[r].worker].args = <<"--user-id", found[1].id>>
                /\ reqs[r].pc = "started" => ENABLED Return(r)
                /\ reqs[r].pc = "returned" => reqs[r].response = <<Accepted(r)>>
  /\ \A w \in 1..Len(workers) :
       Cardinality({r \in 1..Len(reqs) : reqs[r].worker = w}) = 1

\* C16's case: two requests for subscribers of the store have returned
\* success, the first while its worker has not yet started the process, the
\* second though its process has ended with code 1.
C16_Witness ==
  /\ Len(reqs) = 2 /\ \A r \in 1..2 : reqs[r].pc = "returned"
  /\ reqs[1].response[1].success /\ workers[reqs[1].worker].state = "thread"
  /\ reqs[2].response[1].success /\ workers[reqs[2].worker].state = "exit1"
  /\ Len(workers) = 2

\* --------------------------------------------------- the stores, as claimed
\* C17: no step of a run, in either mode and on any failure path, changes
\* the subscriber store or the configuration: the records main() loaded are
\* the records of the store throughout the run, and what a run leaves
\* behind is artifact files only.
C17_CoreReadOnly ==
  /\ [][store' = store /\ api_key' = api_key]_vars
  /\ [](pc \notin {"main", "exit"} => users = store)

\* C17's case: a broadcast run over two subscribers has ended after a
\* run_research call raised and a delivery failed; it wrote an artifact, and
\* the store holds the records that were loaded.
C17_Witness ==
  /\ Broadcast /\ pc = "done" /\ Len(store) = 2 /\ users = store
  /\ unit_raised /\ artifacts # {}
  /\ \E k \in 1..Len(sent) : ~sent[k].ok

\* -------------------------------------------- the collection, as claimed
\* C18: a broadcast run over the records of another run, the subscribers in
\* another order and every watchlist in another order, collects the same
\* stocks and the same industries, and by the end of its unit loop has
\* called run_research for the same units.
C18_OrderIndependence ==
  first_run # <<>> =>
    /\ pc \notin {"main", "loaded"} =>
         /\ all_stocks = first_run[1].all_stocks
         /\ all_industries = first_run[1].all_industries
    /\ pc \in {"b_user", "exit"} => Generated = first_run[1].generated

\* C18's case: the second run has left its unit loop; its store holds two
\* active subscribers in the other order, one of them with a watchlist of
\* two stocks, and three units were generated.
C18_Witness ==
  /\ first_run # <<>> /\ pc = "b_user"
  /\ Len(store) = 2 /\ store[1].id = UserIds[2]
  /\ \A i \in 1..2 : GetActive(store[i])
  /\ \E i \in 1..2 : store[i].stocks = <<"B", "A">>
  /\ Cardinality(Generated) = 3

\* ---------------------------------------------------- the order, as claimed
\* How far a run is: entry, targets collected, units being generated, the
\* subscribers' passes, the end.
Rank(p) ==
  CASE p = "main" -> 0
    [] p = "loaded" -> 1
    [] p \in {"s_news", "b_news"} -> 2
    [] p \in {"s_research", "b_research"} -> 3
    [] p \in {"done", "exit"} -> 5
    [] OTHER -> 4

SectionCalls == {"news", "overview", "risk", "footer"}

\* Every dispatch comes right behind the overview, the risk and the outlook
\* call made for it, in that order.
DispatchBehindSections ==
  \A j \in 1..Len(steps) :
    steps[j] = "dispatch" =>
      /\ j > 3
      /\ SubSeq(steps, j - 3, j - 1) = <<"overview", "risk", "footer">>

\* C19, as claimed: a run never steps back, no call of the four sections,
\* the news digest included, is issued before the last run_research call,
\* and every dispatch follows the section calls of its subscriber.
C19_SectionsBehindUnits ==
  /\ [][Rank(pc') >= Rank(pc)]_vars
  /\ [](/\ \A i, j \in 1..Len(steps) :
             (i < j /\ steps[j] = "unit") => steps[i] \notin SectionCalls
        /\ DispatchBehindSections)

\* C19, amended: a run never steps back; the news digest call is the first
\* call of a run, issued once the targets are collected and before the unit
\* loop; no overview, risk or outlook call is issued before the last
\* run_research call; and every dispatch follows the overview, risk and
\* outlook call of its subscriber.
C19_PhaseOrder ==
  /\ [][Rank(pc') >= Rank(pc)]_vars
  /\ [](/\ steps # <<>> => steps[1] = "news" /\ Rank(pc) >= 3
        /\ \A i, j \in 1..Len(steps) :
             (i < j /\ steps[j] = "unit") => steps[i] \in {"news", "unit"}
        /\ \A j \in 2..Len(steps) : steps[j] # "news"
        /\ DispatchBehindSections)

\* C19's case: a broadcast run has ended after the news call, two
\* run_research calls and the passes of two subscribers.
C19_Witness ==
  /\ Broadcast /\ pc = "done"
  /\ steps = <<"news", "unit", "unit", "overview", "risk", "footer",
               "dispatch", "overview", "risk", "footer", "dispatch">>

\* ------------------------------------------------ the artifacts, as claimed
\* C20: at every point of a run the text cached for a unit is the text of
\* an artifact save_report has written; and when save_report has raised
\* for a unit, the unit is absent from the cache and the run is still in its
\* unit loop, on to the next unit.
C20_ArtifactBeforeCache ==
  /\ \A un \in DOMAIN report_map : report_map[un] \in artifacts
  /\ (last_research # <<>> /\ last_research[2] = "save_raise") =>
       /\ ~Present(last_research[1])
       /\ pc \in {"s_research", "b_research"}
       /\ idx <= Len(items) + 1

\* ------------------------------------------- the lists of out, as claimed
\* The list that is open behind the elements of o, read from the list that
\* is open before them: "ul", "ol" or "" for none, and "bad" once a list is
\* opened inside a list, closed without being open, or an item stands
\* outside every list.
RECURSIVE OpenBehind(_, _)
OpenBehind(o, open) ==
  IF o = <<>> \/ open = "bad" THEN open
  ELSE LET t == Head(o).tag
           next == CASE t = "<ul>" -> IF open = "" THEN "ul" ELSE "bad"
                     [] t = "<ol>" -> IF open = "" THEN "ol" ELSE "bad"
                     [] t = "</ul>" -> IF open = "ul" THEN "" ELSE "bad"
                     [] t = "</ol>" -> IF open = "ol" THEN "" ELSE "bad"
                     [] t = "li" -> IF open = "" THEN "bad" ELSE open
                     [] OTHER -> open
       IN  OpenBehind(Tail(o), next)

\* C21: at every point of md_to_html the elements of out open and close
\* their lists in turn, never one inside another, with every item inside a
\* list; the item of a line lies in a list of the kind the line denotes;
\* the list open behind out is the one the flags say; and no list is open
\* when md_to_html returns.
C21_ListBalance ==
  /\ OpenBehind(out, "") # "bad"
  /\ ~rendered =>
       OpenBehind(out, "") = (IF in_ul THEN "ul" ELSE IF in_ol THEN "ol" ELSE "")
  /\ (li > 1 /\ ~rendered /\ ItemKind(lines[li - 1]) # "none") =>
       /\ out[Len(out)].tag = "li"
       /\ OpenBehind(out, "") = ItemKind(lines[li - 1])
  /\ rendered => OpenBehind(out, "") = ""

\* C21's case: a text with an ordered item that ends on an unordered item
\* has been rendered.
C21_Witness ==
  /\ rendered /\ Len(lines) >= 3
  /\ ItemKind(lines[Len(lines)]) = "ul"
  /\ \E i \in 1..Len(lines) : ItemKind(lines[i]) = "ol"
  /\ out[Len(out)].tag = "</ul>"

\* --------------------------------------- the list state machine, as claimed
\* The machine over None, InUnorderedList and InOrderedList: what leaving
\* and what entering a state emits.
Closing(st) ==
  CASE st = "InUnorderedList" -> <<El("</ul>", <<>>)>>
    [] st = "InOrderedList" -> <<El("</ol>", <<>>)>>
    [] OTHER -> <<>>

Opening(st) ==
  CASE st = "InUnorderedList" -> <<El("<ul>", <<>>)>>
    [] st = "InOrderedList" -> <<El("<ol>", <<>>)>>
    [] OTHER -> <<>>

\* The state a line moves the machine to.
Target(line) ==
  CASE ItemKind(line) = "ul" -> "InUnorderedList"
    [] ItemKind(line) = "ol" -> "InOrderedList"
    [] OTHER -> "None"

\* The element of the line itself, whatever list is open.
OwnElement(line) ==
  LET o == LineStep(<<>>, ItemKind(line) = "ul", ItemKind(line) = "ol", line).out
  IN  o[Len(o)]

\* The machine behind the first k lines: its state and what it has emitted.
RECURSIVE Machine(_, _)
Machine(ls, k) ==
  IF k = 0 THEN [state |-> "None", out |-> <<>>]
  ELSE LET m == Machine(ls, k - 1)
           to == Target(ls[k])
           moved == IF to = m.state THEN <<>> ELSE Closing(m.state) \o Opening(to)
       IN  [state |-> to, out |-> m.out \o moved \o <<OwnElement(ls[k])>>]

FlagState ==
  IF in_ul THEN "InUnorderedList" ELSE IF in_ol THEN "InOrderedList" ELSE "None"

\* C22: in_ul and in_ol are never both true, and at every point of
\* md_to_html the flags are the state, and out the output, of the machine
\* behind the lines read so far; what md_to_html returns is the machine's
\* output behind all lines and the closing element of its last state.
C22_StateMachine ==
  /\ ~(in_ul /\ in_ol)
  /\ (~rendered /\ li >= 1) =>
       LET m == Machine(lines, li - 1)
       IN  FlagState = m.state /\ out = m.out
  /\ rendered =>
       LET m == Machine(lines, Len(lines))
       IN  out = m.out \o Closing(m.state)

\* C22's case: a text in which an ordered item follows an unordered item
\* at once, and that ends inside a list, has been rendered.
C22_Witness ==
  /\ rendered
  /\ \E i \in 1..(Len(lines) - 1) :
       ItemKind(lines[i]) = "ul" /\ ItemKind(lines[i + 1]) = "ol"
  /\ ItemKind(lines[Len(lines)]) # "none"

\* ------------------------------------------------- inline, as claimed
\* t stands in s, element by element.
Contains(s, t) == \E k \in 0..(Len(s) - Len(t)) : SubSeq(s, k + 1, k + Len(t)) = t

\* In s the first emphasis markers are a double marker at i, and the next
\* ones a double marker at j, with text that has no code delimiter between.
DoubleSpan(s, i, j) ==
  /\ HasAt(s, i, <<"*", "*">>) /\ HasAt(s, j, <<"*", "*">>) /\ j >= i + 3
  /\ \A k \in 1..(i - 1) : s[k] # "*"
  /\ \A k \in (i + 2)..(j - 1) : s[k] \notin {"*", Backtick}

\* C23: in a line rendered as a paragraph the text between the first double
\* marker and the next stands in the output as one bold element, its markers
\* not taken for italic ones; and each substitution works on what the one
\* before it left: italic inside bold, bold inside italic, italic inside a
\* code span.
C23_InlineOrder ==
  (rendered /\ Len(out) = 1 /\ out[1].tag = "p") =>
    LET s == lines[1]
        body == out[1].body
    IN  /\ \A i, j \in 1..Len(s) :
             DoubleSpan(s, i, j) =>
               Contains(body, <<"<strong>">> \o SubSeq(s, i + 2, j - 1)
                                \o <<"</strong>">>)
        /\ s = <<"*", "*", "a", "*", "b", "*", "c", "*", "*">> =>
             body = <<"<strong>", "a", "<em>", "b", "</em>", "c", "</strong>">>
        /\ s = <<"*", "a", " ", "*", "*", "b", "*", "*", " ", "c", "*">> =>
             body = <<"<em>", "a", " ", "<strong>", "b", "</strong>", " ", "c",
                      "</em>">>
        /\ s = <<Backtick, "*", "a", "*", Backtick>> =>
             body = <<"<code>", "<em>", "a", "</em>", "</code>">>

\* C23's case: the line "**a**" has been rendered with a bold element.
C23_Witness ==
  /\ rendered /\ lines = << <<"*", "*", "a", "*", "*">> >>
  /\ out = <<El("p", <<"<strong>", "a", "</strong>">>)>>

\* ------------------------------------------- the active flag, as claimed
\* The subscribers of the store whose watchlist names the unit.
Watching(un) == {i \in 1..Len(store) : un \in Range(WatchlistOf(store[i]))}

\* C24: in a broadcast run a subscriber whose active flag is false is sent
\* nothing and has none of the three section calls made for it, and a unit
\* that only inactive subscribers watch is never generated; a subscriber
\* whose record has no active flag is served as an active one: once the unit
\* loop is over each unit of its watchlist has been generated, and a run
\* ended in Done with one of them present has dispatched its digest.
C24_ActiveOnly ==
  Broadcast =>
    /\ \A i \in 1..Len(store) :
         store[i].active = "false" =>
           /\ store[i].id \notin Recipients
           /\ sec_calls[store[i].id] = NoCalls
    /\ \A un \in Units :
         (Watching(un) # {} /\ \A i \in Watching(un) : store[i].active = "false")
           => gen_calls[un] = 0
    /\ \A i \in 1..Len(store) :
         store[i].active = "absent" =>
           /\ (ResearchOver /\ pc # "exit") =>
                \A un \in Range(WatchlistOf(store[i])) : gen_calls[un] > 0
           /\ (pc = "done" /\ HasCard(store[i])) => store[i].id \in Recipients

\* C24's case: a broadcast run over an inactive subscriber watching B and an
\* active one watching A has ended in Done with a digest dispatched.
C24_Witness ==
  /\ Broadcast /\ pc = "done" /\ Len(store) = 2
  /\ store[1].active = "false" /\ store[1].stocks = <<"B">>
  /\ store[2].active = "true" /\ store[2].stocks = <<"A">>
  /\ Recipients = {store[2].id} /\ gen_calls[<<"stock", "A">>] = 1

\* --------------------------------------------- run to completion, as claimed
\* The dispatches made to subscriber uid.
Dispatches(uid) == {k \in 1..Len(sent) : sent[k].to = uid}

\* C25: with every call returning, every run ends, in Done (exit code 0) or
\* by sys.exit with code 0 or 1; and a broadcast run that has reached Done,
\* which it does only with a unit present, has made for every active
\* subscriber one dispatch when a unit of its watchlist is present and none
\* when none is.
C25_RunToCompletion ==
  /\ <>[](Finished /\ exit_code \in {0, 1})
  /\ [](Broadcast /\ pc = "done" =>
         /\ report_map # <<>>
         /\ \A i \in 1..Len(store) :
              store[i].active # "false" =>
                Cardinality(Dispatches(store[i].id))
                  = (IF HasCard(store[i]) THEN 1 ELSE 0))

\* C25's case: a broadcast run over two active subscribers has ended in Done
\* with one unit failed: one subscriber was skipped, the other dispatched to
\* once.
C25_Witness ==
  /\ Broadcast /\ pc = "done" /\ Len(store) = 2
  /\ store[1].active = "true" /\ store[2].active = "true"
  /\ ~HasCard(store[1]) /\ HasCard(store[2])
  /\ Dispatches(store[1].id) = {} /\ Cardinality(Dispatches(store[2].id)) = 1

\* ------------------------------------------------- the snapshot, as claimed
\* The records of the list main() loaded that the run is for.
SnapSelected ==
  IF Broadcast THEN SelectSeq(users, LAMBDA u : u.active # "false")
               ELSE SelectSeq(users, LAMBDA u : u.id = args_user_id)

SnapReferenced ==
  UNION {Range(WatchlistOf(SnapSelected[i])) : i \in 1..Len(SnapSelected)}

SnapRecordOf(uid) == SelectSeq(users, LAMBDA u : u.id = uid)[1]

Attempted == {un \in Units : gen_calls[un] > 0}

C27_EmptyIsAbsence ==
  /\ [][(last_research' # last_research /\ last_research' # <<>>
           /\ last_research'[2] = "empty")
          => artifacts' = artifacts /\ report_map' = report_map]_vars
  /\ []((last_research # <<>> /\ last_research[2] = "empty")
          => ~Present(last_research[1]))
  /\ [](\A k \in 1..Len(sent) :
          \A un \in Range(CardUnits(sent[k].cards)) : Present(un))

\* ------------------------------------------ the store's writers, as claimed
\* The subscriber a request is about.
SubscriberOf(r) == IF r.op = "register" THEN IdOf(r.arg.name) ELSE r.arg

About(st, uid) == SelectSeq(st, LAMBDA u : u.id = uid)

\* What the request made of its subscriber's record.
EffectOf(r) ==
  About(Saved([op |-> r.op, arg |-> r.arg, users |-> r.seen, now |-> r.now]),
        SubscriberOf(r))

\* C28: when two requests that write the store, about different subscribers,
\* have both returned, the store holds for each of the two subscribers what
\* its request made of it: neither write is lost.
C28_NoLostUpdate ==
  (handling = <<>> /\ Len(handled) = 2
     /\ handled[1].saved /\ handled[2].saved
     /\ SubscriberOf(handled[1]) # SubscriberOf(handled[2])) =>
    \A k \in 1..2 : About(store, SubscriberOf(handled[k])) = EffectOf(handled[k])

\* ------------------------------------------------ registration, as claimed
\* The request whose return the step is.
Answered == handled'[Len(handled')]

\* C29: with the requests handled one after the other from an empty file,
\* no two records of the store ever share a name; a register request with an
\* empty name or address leaves the store as it is; one for a name the store
\* holds leaves the number and the order of the records, gives that record
\* the address, the watchlists and the schedule of the request, keeps its id,
\* its name, its active flag and created_at, and leaves every other record
\* as it is; and one for a new name appends an active record of that name.
C29_UpsertByName ==
  /\ [](\A i, j \in 1..Len(store) : i # j => store[i].name # store[j].name)
  /\ [][(Len(handled') = Len(handled) + 1 /\ Answered.op = "register") =>
          LET data == Answered.arg
              known == \E i \in 1..Len(store) : store[i].name = data.name
          IN  IF Rejected(data) THEN store' = store /\ ~Answered.saved
              ELSE IF known
                THEN /\ Len(store') = Len(store)
                     /\ \A i \in 1..Len(store) :
                          IF store[i].name = data.name
                            THEN /\ store'[i].email = data.email
                                 /\ store'[i].stocks = data.stocks
                                 /\ store'[i].industries = data.industries
                                 /\ store'[i].schedule = data.schedule
                                 /\ store'[i].id = store[i].id
                                 /\ store'[i].name = store[i].name
                                 /\ store'[i].active = store[i].active
                                 /\ store'[i].created_at = store[i].created_at
                            ELSE store'[i] = store[i]
                ELSE /\ Len(store') = Len(store) + 1
                     /\ SubSeq(store', 1, Len(store)) = store
                     /\ store'[Len(store')].name = data.name
                     /\ store'[Len(store')].active = "true"]_vars

\* C29's case: n1 has registered, has been deactivated and has registered
\* again with another address and another stock: its one record carries the
\* new address and stock, is still inactive and still has its first
\* created_at.
C29_Witness ==
  /\ handling = <<>> /\ Len(handled) = 3
  /\ handled[1].op = "register" /\ handled[2].op = "toggle"
  /\ handled[3].op = "register" /\ handled[3].arg.name = "n1"
  /\ Len(store) = 1 /\ store[1].name = "n1"
  /\ store[1].email = "e2" /\ store[1].stocks = <<"B">>
  /\ handled[1].arg.email = "e1" /\ handled[1].arg.stocks = <<"A">>
  /\ store[1].active = "false"
  /\ store[1].created_at = 1 /\ store[1].updated_at = 3

====
